---- MODULE Spec2Model ----
(***************************************************************************)
(* The edit-operation log of plush-ai (OperationStackManager in            *)
(* plush-ai-app/src/services/sessionStorage.ts): operations, undoStack and *)
(* redoStack, with one action per public method; the session files of      *)
(* SessionStorageService; the native warp view (ImageWarpModule.swift) and *)
(* the magnifier shader (MagnifierToolGL.tsx), in the floating-point       *)
(* arithmetic they compute in; the editor screen (EditorScreen) with its   *)
(* liquify tool; and saveSession calls whose asynchronous steps overlap.   *)
(***************************************************************************)
EXTENDS Integers, Sequences, FiniteSets, TLC

VARIABLES
    operations,   \* OperationStackManager.operations : Operation[]
    undoStack,    \* OperationStackManager.undoStack  : Operation[][]
    redoStack,    \* OperationStackManager.redoStack  : Operation[][]
    last,         \* name of the method called last
    ret,          \* what that call returned
    pre,          \* the log as it was when that call started
    undone,       \* operations as they were before each undo not yet redone
    args,         \* the arguments of the method called last
    onChangeCallback,  \* OperationStackManager.onChangeCallback is set
    notified,     \* the arrays that call handed to onChangeCallback
    files,        \* the texts FileSystem holds, by path
    view,         \* the ImageWarpView: its fields, and the frames it drew
    journal,      \* the storage calls completed: their number, and the
                  \* files as they were when the last one started
    pending,      \* the saveSession calls in flight, each at its await
    screen        \* the EditorScreen: its state, and the tool it mounts

vars == <<operations, undoStack, redoStack, last, ret, pre, undone,
          args, onChangeCallback, notified, files, view,
          journal, pending, screen>>

\* what lies outside the OperationStackManager
outside == <<files, view, journal, pending, screen>>

\* ---------------------------------------------------------------- bounds

MaxOps == 3          \* the appending calls stop at this many operations
MaxGroups == 3       \* the pushing calls stop at this many undo groups
BasicMaxOps == 4     \* the same two bounds where only addOperation,
BasicMaxGroups == 3  \* addOperations, undo and redo are called
MaxLen == 3          \* longest initialOps handed to the constructor
CapExtra == 10       \* the capacity runs append maxStackSize + CapExtra times
OneMaxOps == 3       \* the bounds on operations and undo groups where one
OneMaxGroups == 4    \* kind is only introduced by replaceOperationsOfType
ListenMaxOps == 2    \* the bounds on operations and undo groups where a
ListenMaxGroups == 2 \* change listener is registered
BatchExtra == 2      \* the batch runs make up to maxStackSize + BatchExtra
                     \* single appends before the batch
MaxBatch == 2        \* most operations in one addOperations batch
EditMaxOps == 3      \* the bounds on operations and undo groups where
EditMaxGroups == 3   \* updateLastOperation edits the last operation
StoreMaxOps == 2     \* most operations in the log that is serialized
MaxCommitted == 1    \* frames committed and not yet on screen
OverlapMaxCalls == 3 \* saveSession calls begun where calls overlap
EditorMaxOps == 2    \* the magnifier stops applying at this many operations
GestureMaxPoints == 3  \* most points one liquify gesture records
IndexExtra == 2      \* new sessions saved beyond HISTORY_LIMIT
IndexMaxMixed == 2   \* calls of any kind after the run of new sessions
GeomMaxOps == 3      \* most operations where geometry of any sign is passed

\* ------------------------------------------------------ program constants

maxStackSize == 50

\* ------------------------------------------------------------ operations

Undefined == "undefined"

Stroke(n) == [points |-> <<[x |-> n, y |-> n], [x |-> n + 1, y |-> n + 1]>>,
              size |-> 50]

Liquify(strokes, mask) ==
    [type |-> "liquify", strokes |-> strokes, freezeMaskUri |-> mask]

Magnifier(radius, scale) ==
    [type |-> "magnifier", center |-> [x |-> 100, y |-> 100],
     radius |-> radius, scale |-> scale]

Twirl(angle) ==
    [type |-> "twirl", center |-> [x |-> 100, y |-> 100],
     radius |-> 50, angle |-> angle]

BodyParam(key, value) == [type |-> "bodyParam", key |-> key, value |-> value]

FaceParam(key, value) == [type |-> "faceParam", key |-> key, value |-> value]

Color(exposure) == [type |-> "color", exposure |-> exposure]

OperationTypes ==
    {"liquify", "magnifier", "twirl", "bodyParam", "faceParam",
     "inpaint", "background", "transform", "color"}

\* ------------------------------------------------------- array primitives

Min(a, b) == IF a < b THEN a ELSE b

Max(a, b) == IF a > b THEN a ELSE b

\* Array.prototype.shift: the array without its first element
Shift(s) == IF s = <<>> THEN s ELSE Tail(s)

\* Array.prototype.pop: the array without its last element
Pop(s) == IF s = <<>> THEN s ELSE SubSeq(s, 1, Len(s) - 1)

Last(s) == s[Len(s)]

\* Array.prototype.splice(start, deleteCount): a negative start counts from
\* the end and is clamped at 0, deleteCount is clamped to what is left.
SpliceStart(s, start) ==
    IF start < 0 THEN Max(Len(s) + start, 0) ELSE Min(start, Len(s))

SpliceCount(s, start, deleteCount) ==
    Min(Max(deleteCount, 0), Len(s) - SpliceStart(s, start))

SpliceRemoved(s, start, deleteCount) ==
    SubSeq(s, SpliceStart(s, start) + 1,
           SpliceStart(s, start) + SpliceCount(s, start, deleteCount))

SpliceRest(s, start, deleteCount) ==
    SubSeq(s, 1, SpliceStart(s, start))
    \o SubSeq(s, SpliceStart(s, start) + SpliceCount(s, start, deleteCount) + 1,
              Len(s))

RECURSIVE Flatten(_)
Flatten(ss) == IF ss = <<>> THEN <<>> ELSE Head(ss) \o Flatten(Tail(ss))

\* ------------------------------------------------- CGFloat arithmetic
\* CGFloat is Double: IEEE 754 binary64, every operation rounded to nearest,
\* ties to even.  A finite value is (-1)^neg * m * 2^e with m a natural
\* number written as its digits in base 2^LimbBits, least significant
\* first and no high zero; the values met here are far from the ends of the
\* exponent range.

Precision == 53     \* bits of a binary64 significand

Base == 2 ^ 15

LimbBits == CHOOSE n \in 1..30 : 2 ^ n = Base

RECURSIVE Trim(_)
Trim(a) ==
    IF a = <<>> THEN <<>>
    ELSE IF a[Len(a)] = 0 THEN Trim(SubSeq(a, 1, Len(a) - 1))
    ELSE a

RECURSIVE Digits(_)
Digits(n) == IF n = 0 THEN <<>> ELSE <<n % Base>> \o Digits(n \div Base)

DigitOr0(a) == IF a = <<>> THEN 0 ELSE Head(a)

TailOrEmpty(a) == IF a = <<>> THEN <<>> ELSE Tail(a)

RECURSIVE AddN(_, _, _)
AddN(a, b, carry) ==
    IF a = <<>> /\ b = <<>> THEN Digits(carry)
    ELSE LET sum == DigitOr0(a) + DigitOr0(b) + carry
         IN  <<sum % Base>> \o AddN(TailOrEmpty(a), TailOrEmpty(b), sum \div Base)

\* a - b - borrow where that is not negative
RECURSIVE SubDigits(_, _, _)
SubDigits(a, b, borrow) ==
    IF a = <<>> THEN <<>>
    ELSE LET diff == Head(a) - DigitOr0(b) - borrow
         IN  <<diff % Base>> \o SubDigits(Tail(a), TailOrEmpty(b),
                                          IF diff < 0 THEN 1 ELSE 0)

SubN(a, b) == Trim(SubDigits(a, b, 0))

\* -1, 0, 1 as a is below, equal to, above b
CmpN(a, b) ==
    IF Len(a) # Len(b) THEN (IF Len(a) < Len(b) THEN 0 - 1 ELSE 1)
    ELSE IF a = b THEN 0
    ELSE LET i == CHOOSE k \in 1..Len(a) :
                      a[k] # b[k] /\ \A l \in (k + 1)..Len(a) : a[l] = b[l]
         IN  IF a[i] < b[i] THEN 0 - 1 ELSE 1

\* a times one digit d
RECURSIVE MulDigit(_, _, _)
MulDigit(a, d, carry) ==
    IF a = <<>> THEN Digits(carry)
    ELSE LET prod == Head(a) * d + carry
         IN  <<prod % Base>> \o MulDigit(Tail(a), d, prod \div Base)

RECURSIVE MulN(_, _)
MulN(a, b) ==
    IF a = <<>> \/ b = <<>> THEN <<>>
    ELSE LET high == MulN(Tail(a), b)
         IN  AddN(Trim(MulDigit(b, Head(a), 0)),
                  IF high = <<>> THEN <<>> ELSE <<0>> \o high, 0)

\* a * 2^k
ShlN(a, k) ==
    IF a = <<>> THEN <<>>
    ELSE [i \in 1..(k \div LimbBits) |-> 0]
             \o Trim(MulDigit(a, 2 ^ (k % LimbBits), 0))

\* the whole part of a / 2^k
ShrN(a, k) ==
    LET whole == k \div LimbBits
        part == 2 ^ (k % LimbBits)
        digit(i) == IF i <= Len(a) THEN a[i] ELSE 0
    IN  Trim([i \in 1..(Len(a) - whole) |->
                 digit(i + whole) \div part
                     + (digit(i + whole + 1) % part) * (Base \div part)])

BitLength(a) ==
    IF a = <<>> THEN 0
    ELSE (Len(a) - 1) * LimbBits
             + (CHOOSE n \in 1..LimbBits : 2 ^ (n - 1) <= a[Len(a)] /\ a[Len(a)] < 2 ^ n)

\* bit i of a, the lowest being bit 0
Bit(a, i) ==
    IF i \div LimbBits >= Len(a) THEN 0
    ELSE (a[i \div LimbBits + 1] \div 2 ^ (i % LimbBits)) % 2

\* the greatest digit d in lo..hi with d * b <= a, given lo * b <= a
RECURSIVE QuotientDigit(_, _, _, _)
QuotientDigit(a, b, lo, hi) ==
    IF lo = hi THEN lo
    ELSE LET mid == (lo + hi + 1) \div 2
         IN  IF CmpN(Trim(MulDigit(b, mid, 0)), a) <= 0
             THEN QuotientDigit(a, b, mid, hi)
             ELSE QuotientDigit(a, b, lo, mid - 1)

\* quotient and remainder of a by b, b not zero
RECURSIVE DivN(_, _)
DivN(a, b) ==
    IF a = <<>> THEN [q |-> <<>>, r |-> <<>>]
    ELSE LET high == DivN(Tail(a), b)
             rem == Trim(<<Head(a)>> \o high.r)
             d == QuotientDigit(rem, b, 0, Base - 1)
         IN  [q |-> Trim(<<d>> \o high.q),
              r |-> SubN(rem, Trim(MulDigit(b, d, 0)))]

\* (-1)^neg * m * 2^e, in the one form each value has: m odd, or zero
Dyadic(neg, m, e) ==
    IF m = <<>> THEN [neg |-> FALSE, m |-> <<>>, e |-> 0]
    ELSE LET low == CHOOSE i \in 0..(BitLength(m) - 1) :
                        Bit(m, i) = 1 /\ \A j \in 0..(i - 1) : Bit(m, j) = 0
         IN  [neg |-> neg, m |-> ShrN(m, low), e |-> e + low]

\* the integer n as a CGFloat
CG(n) == Dyadic(n < 0, Digits(IF n < 0 THEN 0 - n ELSE n), 0)

\* exact arithmetic on these values
Neg(x) == Dyadic(~x.neg, x.m, x.e)

Scaled(x, k) == Dyadic(x.neg, x.m, x.e + k)

Magnitude(x) == IF x.neg THEN Neg(x) ELSE x

ExactAdd(x, y) ==
    LET e == Min(x.e, y.e)
        a == ShlN(x.m, x.e - e)
        b == ShlN(y.m, y.e - e)
    IN  IF x.neg = y.neg THEN Dyadic(x.neg, AddN(a, b, 0), e)
        ELSE IF CmpN(a, b) >= 0 THEN Dyadic(x.neg, SubN(a, b), e)
        ELSE Dyadic(y.neg, SubN(b, a), e)

ExactMul(x, y) == Dyadic(x.neg # y.neg, MulN(x.m, y.m), x.e + y.e)

IsNegative(x) == x.neg /\ x.m # <<>>

\* the values that are no numbers: a division by zero gives an infinity,
\* or NaN for 0 / 0; they are told from zero by their e
Infinity(neg) == [neg |-> neg, m |-> <<>>, e |-> 1]

NaN == [neg |-> FALSE, m |-> <<>>, e |-> 2]

IsFinite(x) == x.m # <<>> \/ x.e = 0

IsInfinite(x) == x.m = <<>> /\ x.e = 1

IsZero(x) == x.m = <<>> /\ x.e = 0

\* x <= y; false when either is NaN
Leq(x, y) ==
    IF x = NaN \/ y = NaN THEN FALSE
    ELSE IF IsInfinite(x) THEN x.neg \/ y = x
    ELSE IF IsInfinite(y) THEN ~y.neg
    ELSE ~IsNegative(ExactAdd(y, Neg(x)))

Less(x, y) == x # NaN /\ y # NaN /\ ~Leq(y, x)

Highp == 24         \* bits of the significand of a highp float (binary32)

\* rounding to nearest, ties to even, of the value (-1)^neg * m * 2^e to
\* that many bits
RoundedTo(bits, neg, m, e) ==
    IF BitLength(m) <= bits THEN Dyadic(neg, m, e)
    ELSE LET d == BitLength(m) - bits
             kept == ShrN(m, d)
             up == /\ Bit(m, d - 1) = 1
                   /\ (Bit(kept, 0) = 1 \/ \E i \in 0..(d - 2) : Bit(m, i) = 1)
         IN  Dyadic(neg, IF up THEN AddN(kept, <<1>>, 0) ELSE kept, e + d)

Rounded(neg, m, e) == RoundedTo(Precision, neg, m, e)

RoundedValue(x) == Rounded(x.neg, x.m, x.e)

\* the CGFloat operators +, -, *, / and min, max
FAdd(x, y) == RoundedValue(ExactAdd(x, y))

FSub(x, y) == RoundedValue(ExactAdd(x, Neg(y)))

FMul(x, y) ==
    IF x = NaN \/ y = NaN THEN NaN
    ELSE IF IsInfinite(x) \/ IsInfinite(y)
    THEN (IF IsZero(x) \/ IsZero(y) THEN NaN ELSE Infinity(x.neg # y.neg))
    ELSE RoundedValue(ExactMul(x, y))

\* x / y of finite values, y not zero, to that many bits: the quotient to
\* two bits more, with a last bit that says whether anything is left, then
\* rounded
DivTo(bits, x, y) ==
    IF IsZero(x) THEN x
    ELSE LET k == Max(0, bits + 2 + BitLength(y.m) - BitLength(x.m))
             qr == DivN(ShlN(x.m, k), y.m)
             sticky == IF qr.r = <<>> THEN 0 ELSE 1
         IN  RoundedTo(bits, x.neg # y.neg,
                       AddN(ShlN(qr.q, 1), Digits(sticky), 0),
                       x.e - y.e - k - 1)

FDiv(x, y) ==
    IF IsZero(y) THEN (IF IsZero(x) THEN NaN ELSE Infinity(x.neg))
    ELSE DivTo(Precision, x, y)

FMin(x, y) == IF Less(y, x) THEN y ELSE x

\* min is y < x ? y : x and max is y >= x ? y : x
FMax(x, y) == IF Leq(x, y) THEN y ELSE x

\* the operators +, -, *, / and sqrt of the shader's highp floats, on
\* finite values
HAdd(x, y) ==
    LET sum == ExactAdd(x, y) IN RoundedTo(Highp, sum.neg, sum.m, sum.e)

HSub(x, y) == HAdd(x, Neg(y))

HMul(x, y) ==
    LET prod == ExactMul(x, y) IN RoundedTo(Highp, prod.neg, prod.m, prod.e)

HDiv(x, y) == DivTo(Highp, x, y)

\* the greatest digit d in lo..hi with (r + d * Base^pos)^2 <= n, given
\* that lo is such a digit
RECURSIVE RootDigit(_, _, _, _, _)
RootDigit(n, r, pos, lo, hi) ==
    IF lo = hi THEN lo
    ELSE LET mid == (lo + hi + 1) \div 2
             more == AddN(r, [i \in 1..pos |-> 0] \o <<mid>>, 0)
         IN  IF CmpN(MulN(more, more), n) <= 0
             THEN RootDigit(n, r, pos, mid, hi)
             ELSE RootDigit(n, r, pos, lo, mid - 1)

\* the greatest r with r * r <= n, its digits settled from pos downwards
RECURSIVE SqrtN(_, _, _)
SqrtN(n, r, pos) ==
    IF pos = 0 THEN r
    ELSE LET d == RootDigit(n, r, pos - 1, 0, Base - 1)
         IN  SqrtN(n, IF d = 0 THEN r
                      ELSE AddN(r, [i \in 1..(pos - 1) |-> 0] \o <<d>>, 0),
                   pos - 1)

\* the root of x >= 0 to two bits more than Highp, with a last bit that
\* says whether anything is left, then rounded
HSqrt(x) ==
    IF IsZero(x) THEN x
    ELSE LET atLeast == Max(0, 2 * (Highp + 2) - BitLength(x.m))
             k == IF (x.e - atLeast) % 2 = 0 THEN atLeast ELSE atLeast + 1
             n == ShlN(x.m, k)
             r == SqrtN(n, <<>>, (Len(n) + 1) \div 2)
             sticky == IF MulN(r, r) = n THEN 0 ELSE 1
         IN  RoundedTo(Highp, FALSE, AddN(ShlN(r, 1), Digits(sticky), 0),
                       (x.e - k) \div 2 - 1)

\* ------------------------------------------------------------ the log

Log(ops, us, rs) == [operations |-> ops, undoStack |-> us, redoStack |-> rs]

cur == Log(operations, undoStack, redoStack)

Null == [isNull |-> TRUE, ops |-> <<>>]

Returned(ops) == [isNull |-> FALSE, ops |-> ops]

Void == Null

\* a constructor that records initialOps as an undo group
constructorWithHistory(initialOps) == Log(initialOps, <<initialOps>>, <<>>)

\* constructor(initialOps)
constructor(initialOps) == Log(initialOps, <<>>, <<>>)

canUndo(L) == Len(L.undoStack) > 0

canRedo(L) == Len(L.redoStack) > 0

\* a push with the capacity check left out
EvictNever(stack) == stack

\* the capacity check that follows a push
Evict(stack) == IF Len(stack) > maxStackSize THEN Shift(stack) ELSE stack

addOperation(L, operation) ==
    Log(Append(L.operations, operation),
        Evict(Append(L.undoStack, <<operation>>)),
        <<>>)

\* an addOperations that calls addOperation for each operation
RECURSIVE addOperationsSingly(_, _)
addOperationsSingly(L, ops) ==
    IF ops = <<>> THEN Log(L.operations, L.undoStack, <<>>)
    ELSE addOperationsSingly(addOperation(L, Head(ops)), Tail(ops))

addOperations(L, ops) ==
    Log(L.operations \o ops,
        Evict(Append(L.undoStack, ops)),
        <<>>)

undoCount(L) == Len(Last(L.undoStack))

removedOps(L) ==
    SpliceRemoved(L.operations, Len(L.operations) - undoCount(L), undoCount(L))

undo(L) ==
    IF ~canUndo(L) THEN L
    ELSE Log(SpliceRest(L.operations, Len(L.operations) - undoCount(L),
                        undoCount(L)),
             Pop(L.undoStack),
             Evict(Append(L.redoStack, removedOps(L))))

undoResult(L) == IF ~canUndo(L) THEN Null ELSE Returned(removedOps(L))

\* a redo that puts the group back in front (unshift for push)
redoUnshift(L) ==
    IF ~canRedo(L) THEN L
    ELSE Log(Last(L.redoStack) \o L.operations,
             Append(L.undoStack, Last(L.redoStack)),
             Pop(L.redoStack))

redo(L) ==
    IF ~canRedo(L) THEN L
    ELSE Log(L.operations \o Last(L.redoStack),
             Append(L.undoStack, Last(L.redoStack)),
             Pop(L.redoStack))

redoResult(L) == IF ~canRedo(L) THEN Null ELSE Returned(Last(L.redoStack))

updateLastOperation(L, operation) ==
    IF Len(L.operations) = 0 THEN addOperation(L, operation)
    ELSE IF Last(L.operations).type = operation.type
         THEN Log([L.operations EXCEPT ![Len(L.operations)] = operation],
                  L.undoStack, L.redoStack)
         ELSE addOperation(L, operation)

\* this.operations.filter(op => op.type === type); SelectSeq is
\* Array.prototype.filter
OfType(ops, type) == SelectSeq(ops, LAMBDA op : op.type = type)

\* this.operations.filter(op => op.type !== type)
NotOfType(ops, type) == SelectSeq(ops, LAMBDA op : op.type # type)

\* a replaceOperationsOfType that pushes without filtering first
replaceKeepingAll(L, type, operation) ==
    Log(Append(L.operations, operation),
        Append(L.undoStack, <<operation>>),
        <<>>)

replaceOperationsOfType(L, type, operation) ==
    Log(Append(NotOfType(L.operations, type), operation),
        Append(L.undoStack, <<operation>>),
        <<>>)

clearOperationsOfType(L, type) ==
    IF Len(OfType(L.operations, type)) > 0
    THEN Log(NotOfType(L.operations, type),
             Append(L.undoStack, OfType(L.operations, type)),
             <<>>)
    ELSE L

\* a resetTool that leaves redoStack as it is
resetToolKeepingRedo(L, toolType) ==
    IF Len(OfType(L.operations, toolType)) > 0
    THEN Log(NotOfType(L.operations, toolType),
             Append(L.undoStack, OfType(L.operations, toolType)),
             L.redoStack)
    ELSE L

resetTool(L, toolType) ==
    IF Len(OfType(L.operations, toolType)) > 0
    THEN Log(NotOfType(L.operations, toolType),
             Append(L.undoStack, OfType(L.operations, toolType)),
             <<>>)
    ELSE L

clear(L) ==
    IF Len(L.operations) > 0
    THEN Log(<<>>, Append(L.undoStack, L.operations), <<>>)
    ELSE L

reset(L) == Log(<<>>, <<>>, <<>>)

\* ---- optimizeOperations

\* the elements of s, each at the place of its first occurrence: the order
\* in which a Map yields its keys
RECURSIVE InsertionOrder(_)
InsertionOrder(s) ==
    IF s = <<>> THEN <<>>
    ELSE IF \E i \in 1..(Len(s) - 1) : s[i] = Last(s)
         THEN InsertionOrder(Pop(s))
         ELSE Append(InsertionOrder(Pop(s)), Last(s))

\* an iteration that yields the key set last first
typeGroupKeysNewestFirst(ops) ==
    LET keys == InsertionOrder([i \in 1..Len(ops) |-> ops[i].type])
    IN  [i \in 1..Len(keys) |-> keys[Len(keys) + 1 - i]]

\* the keys of typeGroups, in iteration order
typeGroupKeys(ops) == InsertionOrder([i \in 1..Len(ops) |-> ops[i].type])

\* typeGroups.get(key)
typeGroup(ops, key) == OfType(ops, key)

\* a merge that keeps the strokes of the last liquify operation only
lastStrokes(ops) == Last(ops).strokes

\* liquifyOps.flatMap(op => op.strokes)
allStrokes(ops) == Flatten([i \in 1..Len(ops) |-> ops[i].strokes])

\* a paramMap that keeps the operation set first for each key
paramMapFirstValues(ops) ==
    LET keys == InsertionOrder([i \in 1..Len(ops) |-> ops[i].key])
    IN  [i \in 1..Len(keys) |->
            Head(SelectSeq(ops, LAMBDA op : op.key = keys[i]))]

\* paramMap.values(): one operation per key, the one set last, at the place
\* where the key was set first
paramMapValues(ops) ==
    LET keys == InsertionOrder([i \in 1..Len(ops) |-> ops[i].key])
    IN  [i \in 1..Len(keys) |->
            Last(SelectSeq(ops, LAMBDA op : op.key = keys[i]))]

\* a color case that keeps the first color operation
firstColorOp(ops) == Head(ops)

\* const lastColorOp = ops[ops.length - 1]
lastColorOp(ops) == Last(ops)

\* what one type group contributes to `optimized`
optimizedGroup(ops) ==
    IF Len(ops) = 1 THEN ops
    ELSE CASE ops[1].type = "liquify" ->
                  IF Len(allStrokes(ops)) > 0
                  THEN <<Liquify(allStrokes(ops), Last(ops).freezeMaskUri)>>
                  ELSE <<>>
           [] ops[1].type \in {"bodyParam", "faceParam"} -> paramMapValues(ops)
           [] ops[1].type = "color" -> <<lastColorOp(ops)>>
           [] OTHER -> ops

optimized(ops) ==
    LET keys == typeGroupKeys(ops)
    IN  Flatten([i \in 1..Len(keys) |-> optimizedGroup(typeGroup(ops, keys[i]))])

optimizeOperations(L) == Log(optimized(L.operations), L.undoStack, L.redoStack)

\* ---- JSON

\* A text: one that is the JSON document of a value, or one that is not JSON.
Json(value) == [valid |-> TRUE, value |-> value]

NotJson == [valid |-> FALSE]

\* the optional string properties, the ones an object can hold as undefined
OptionalStrings == {"freezeMaskUri", "replaceUri", "previewUri", "matteUri"}

\* JSON.stringify of an object keeps the properties that are not undefined
Defined(object) ==
    [f \in {g \in DOMAIN object :
                ~(g \in OptionalStrings /\ object[g] = Undefined)} |-> object[f]]

\* JSON.stringify of an Operation[]
DefinedAll(ops) == [i \in 1..Len(ops) |-> Defined(ops[i])]

\* JSON.stringify(session) of an EditSession
stringifySession(session) ==
    Json([Defined(session) EXCEPT !.ops = DefinedAll(session.ops)])

\* JSON.stringify(sessionIds)
stringifyIds(sessionIds) == Json(sessionIds)

\* JSON.parse(text): the value, or a SyntaxError thrown
JSON_parse(text) ==
    IF text.valid THEN [threw |-> FALSE, value |-> text.value]
    ELSE [threw |-> TRUE]

\* object.name of a parsed object: undefined where the property is absent
Prop(object, name) ==
    IF name \in DOMAIN object THEN object[name] ELSE Undefined

\* data.name || []
PropOrEmpty(object, name) ==
    IF name \in DOMAIN object THEN object[name] ELSE <<>>

toJSON(L) ==
    Json([operations |-> DefinedAll(L.operations),
          undoStack |-> [i \in 1..Len(L.undoStack) |-> DefinedAll(L.undoStack[i])],
          redoStack |-> [i \in 1..Len(L.redoStack) |-> DefinedAll(L.redoStack[i])]])

\* OperationStackManager.fromJSON(json): what it returns, and never throws
fromJSON(json) ==
    IF JSON_parse(json).threw
    THEN [threw |-> FALSE, manager |-> constructor(<<>>)]
    ELSE LET data == JSON_parse(json).value
         IN  [threw |-> FALSE,
              manager |-> Log(constructor(PropOrEmpty(data, "operations")).operations,
                              PropOrEmpty(data, "undoStack"),
                              PropOrEmpty(data, "redoStack"))]

\* ---- SessionStorageService over FileSystem

HISTORY_LIMIT == 50

SESSIONS_DIR == "sessions/"

THUMBNAILS_DIR == "sessions/thumbnails/"

\* `${SESSIONS_DIR}${sessionId}.json`
sessionPath(sessionId) == <<SESSIONS_DIR, sessionId, ".json">>

\* `${THUMBNAILS_DIR}${sessionId}.jpg`
thumbnailPath(sessionId) == <<THUMBNAILS_DIR, sessionId, ".jpg">>

SESSIONS_INDEX_FILE == <<SESSIONS_DIR, "index", ".json">>

\* FileSystem with no file in it
NoFiles == [path \in {} |-> NotJson]

\* (await FileSystem.getInfoAsync(path)).exists
exists(F, path) == path \in DOMAIN F

\* FileSystem.writeAsStringAsync(path, text)
writeAsString(F, path, text) ==
    [q \in DOMAIN F \cup {path} |-> IF q = path THEN text ELSE F[q]]

\* FileSystem.deleteAsync(path)
delete(F, path) == [q \in DOMAIN F \ {path} |-> F[q]]

\* sessionIds.filter(id => id !== sessionId)
WithoutId(sessionIds, sessionId) ==
    SelectSeq(sessionIds, LAMBDA id : id # sessionId)

removeFromSessionsIndex(F, sessionId) ==
    IF ~exists(F, SESSIONS_INDEX_FILE) THEN F
    ELSE IF JSON_parse(F[SESSIONS_INDEX_FILE]).threw THEN F
    ELSE writeAsString(F, SESSIONS_INDEX_FILE,
             stringifyIds(WithoutId(JSON_parse(F[SESSIONS_INDEX_FILE]).value,
                                    sessionId)))

deleteSession(F, sessionId) ==
    LET F1 == IF exists(F, sessionPath(sessionId))
              THEN delete(F, sessionPath(sessionId)) ELSE F
        F2 == IF exists(F1, thumbnailPath(sessionId))
              THEN delete(F1, thumbnailPath(sessionId)) ELSE F1
    IN  removeFromSessionsIndex(F2, sessionId)

\* for (const id of sessionsToDelete) await this.deleteSession(id)
RECURSIVE deleteSessions(_, _)
deleteSessions(F, sessionsToDelete) ==
    IF sessionsToDelete = <<>> THEN F
    ELSE deleteSessions(deleteSession(F, Head(sessionsToDelete)),
                        Tail(sessionsToDelete))

\* an updateSessionsIndex that pushes the id at the end
updateSessionsIndexAtEnd(F, session) ==
    IF exists(F, SESSIONS_INDEX_FILE) /\ JSON_parse(F[SESSIONS_INDEX_FILE]).threw
    THEN F
    ELSE LET stored == IF exists(F, SESSIONS_INDEX_FILE)
                       THEN JSON_parse(F[SESSIONS_INDEX_FILE]).value ELSE <<>>
         IN  writeAsString(F, SESSIONS_INDEX_FILE,
                           stringifyIds(Append(WithoutId(stored, session.id),
                                               session.id)))

updateSessionsIndex(F, session) ==
    IF exists(F, SESSIONS_INDEX_FILE) /\ JSON_parse(F[SESSIONS_INDEX_FILE]).threw
    THEN F
    ELSE LET stored == IF exists(F, SESSIONS_INDEX_FILE)
                       THEN JSON_parse(F[SESSIONS_INDEX_FILE]).value ELSE <<>>
             \* indexOf, splice(index, 1): the first occurrence goes
             first == IF \E i \in 1..Len(stored) : stored[i] = session.id
                      THEN CHOOSE i \in 1..Len(stored) :
                               /\ stored[i] = session.id
                               /\ \A j \in 1..(i - 1) : stored[j] # session.id
                      ELSE 0
             spliced == IF first = 0 THEN stored
                        ELSE SubSeq(stored, 1, first - 1)
                                 \o SubSeq(stored, first + 1, Len(stored))
             sessionIds == <<session.id>> \o spliced
         IN  IF Len(sessionIds) > HISTORY_LIMIT
             THEN writeAsString(
                      deleteSessions(F, SubSeq(sessionIds, HISTORY_LIMIT + 1,
                                               Len(sessionIds))),
                      SESSIONS_INDEX_FILE,
                      stringifyIds(SubSeq(sessionIds, 1, HISTORY_LIMIT)))
             ELSE writeAsString(F, SESSIONS_INDEX_FILE, stringifyIds(sessionIds))

\* a saveSession that writes the session with its ops left out
saveSessionNoOps(F, session) ==
    updateSessionsIndex(
        writeAsString(F, sessionPath(session.id),
                      stringifySession([session EXCEPT !.ops = <<>>])),
        session)

saveSession(F, session) ==
    updateSessionsIndex(
        writeAsString(F, sessionPath(session.id), stringifySession(session)),
        session)

\* What a call returned: null, a value, or that it threw.
Threw == [threw |-> TRUE]

ReturnedNull == [threw |-> FALSE, isNull |-> TRUE]

ReturnedValue(value) == [threw |-> FALSE, isNull |-> FALSE, value |-> value]

\* a loadSession without its try/catch
loadSessionThrowing(F, sessionId) ==
    IF ~exists(F, sessionPath(sessionId)) THEN ReturnedNull
    ELSE IF JSON_parse(F[sessionPath(sessionId)]).threw THEN Threw
    ELSE ReturnedValue(JSON_parse(F[sessionPath(sessionId)]).value)

loadSession(F, sessionId) ==
    IF ~exists(F, sessionPath(sessionId)) THEN ReturnedNull
    ELSE IF JSON_parse(F[sessionPath(sessionId)]).threw THEN ReturnedNull
    ELSE ReturnedValue(JSON_parse(F[sessionPath(sessionId)]).value)

\* sessions.sort((a, b) => b.updatedAt - a.updatedAt): a stable sort, newest
\* first; Inserted puts one session into a sorted array behind its equals
RECURSIVE Inserted(_, _)
Inserted(sorted, session) ==
    IF sorted = <<>> THEN <<session>>
    ELSE IF Head(sorted).updatedAt >= session.updatedAt
         THEN <<Head(sorted)>> \o Inserted(Tail(sorted), session)
         ELSE <<session>> \o sorted

RECURSIVE Sorted(_)
Sorted(sessions) ==
    IF sessions = <<>> THEN <<>>
    ELSE Inserted(Sorted(Pop(sessions)), Last(sessions))

\* the loop of getAllSessions: the sessions that load, in index order
RECURSIVE loaded(_, _)
loaded(F, sessionIds) ==
    IF sessionIds = <<>> THEN <<>>
    ELSE LET session == loadSession(F, Head(sessionIds))
         IN  (IF session.threw \/ session.isNull THEN <<>> ELSE <<session.value>>)
                 \o loaded(F, Tail(sessionIds))

getAllSessions(F) ==
    IF ~exists(F, SESSIONS_INDEX_FILE) THEN ReturnedValue(<<>>)
    ELSE IF JSON_parse(F[SESSIONS_INDEX_FILE]).threw THEN ReturnedValue(<<>>)
    ELSE ReturnedValue(Sorted(loaded(F, JSON_parse(F[SESSIONS_INDEX_FILE]).value)))

\* ------------------------------------------------- the native warp view
\* ImageWarpModule.swift.  Sizes are [width, height] and rectangles
\* [x, y, width, height] of CGFloat values.

Size(width, height) == [width |-> CG(width), height |-> CG(height)]

\* aspectFitRect(for:in:) with the greater of the two ratios
aspectFillRect(imageSize, container) ==
    LET rw == FDiv(container.width, imageSize.width)
        rh == FDiv(container.height, imageSize.height)
        scale == FMax(rw, rh)
        w == FMul(imageSize.width, scale)
        h == FMul(imageSize.height, scale)
        x == FDiv(FSub(container.width, w), CG(2))
        y == FDiv(FSub(container.height, h), CG(2))
    IN  [x |-> x, y |-> y, width |-> w, height |-> h]

\* aspectFitRect(for:in:)
aspectFitRect(imageSize, container) ==
    LET rw == FDiv(container.width, imageSize.width)
        rh == FDiv(container.height, imageSize.height)
        scale == FMin(rw, rh)
        w == FMul(imageSize.width, scale)
        h == FMul(imageSize.height, scale)
        x == FDiv(FSub(container.width, w), CG(2))
        y == FDiv(FSub(container.height, h), CG(2))
    IN  [x |-> x, y |-> y, width |-> w, height |-> h]

Point(x, y) == [x |-> x, y |-> y]

ZeroRect == [x |-> CG(0), y |-> CG(0), width |-> CG(0), height |-> CG(0)]

\* an optional is a sequence of no element or of one
None == <<>>

Some(value) == <<value>>

\* A CIImage is its extent's size and the transform it went through:
\* scaled by (scaleX, scaleY), then moved by (translationX, translationY).
CIImage(size) ==
    [size |-> size, scaleX |-> CG(1), scaleY |-> CG(1),
     translationX |-> CG(0), translationY |-> CG(0)]

\* makePreviewCIImage(from:target:)
makePreviewCIImage(ci, target) ==
    IF ~(Less(CG(0), target.width) /\ Less(CG(0), target.height)) THEN ci
    ELSE LET fit == aspectFitRect(ci.size, target)
         IN  [size |-> ci.size,
              scaleX |-> FDiv(fit.width, ci.size.width),
              scaleY |-> FDiv(fit.height, ci.size.height),
              translationX |-> fit.x, translationY |-> fit.y]

\* The view as init leaves it.  needsDisplay is the mark setNeedsDisplay
\* puts on mtkView; committed are the command buffers committed and not
\* yet on screen, presented the frame on screen.
NewView ==
    [bounds |-> Size(0, 0),
     baseImage |-> None,
     fittedImage |-> None,
     imageAspectFitRect |-> ZeroRect,
     centerPx |-> Point(CG(0), CG(0)),
     radiusPx |-> CG(100),
     scaleVal |-> FDiv(CG(2), CG(10)),
     mode |-> "pinch",
     needsDisplay |-> FALSE,
     committed |-> <<>>,
     presented |-> None]

\* setImage(_:) of the image of that size
setImage(v, size) ==
    [v EXCEPT !.baseImage = Some(CIImage(size)),
              !.fittedImage = Some(makePreviewCIImage(CIImage(size), v.bounds)),
              !.imageAspectFitRect = aspectFitRect(size, v.bounds),
              !.needsDisplay = TRUE]

\* Prop("source"): a uri that is nil or names no image changes nothing
Prop_source(v, image) ==
    IF image = None THEN v ELSE setImage(v, image[1])

\* Prop("center"), c a sequence of numbers
Prop_center(v, c) ==
    IF Len(c) = 2
    THEN [v EXCEPT !.centerPx = Point(c[1], c[2]), !.needsDisplay = TRUE]
    ELSE v

Prop_radius(v, r) == [v EXCEPT !.radiusPx = r, !.needsDisplay = TRUE]

Prop_scale(v, sc) == [v EXCEPT !.scaleVal = sc, !.needsDisplay = TRUE]

Prop_mode(v, m) == [v EXCEPT !.mode = m, !.needsDisplay = TRUE]

\* layoutSubviews(), UIKit having given the view its new bounds
layoutSubviews(v, bounds) == [v EXCEPT !.bounds = bounds, !.needsDisplay = TRUE]

\* the four props as they are
Props(v) ==
    [center |-> v.centerPx, radius |-> v.radiusPx, scale |-> v.scaleVal,
     mode |-> v.mode]

\* setImage alone assigns baseImage, and it assigns fittedImage with it
FittedWithBase == view.baseImage # None => view.fittedImage # None

\* What mtkView(_:drawable:) hands to the filter and renders, lines
\* 111-134, the view having a base image; from is the props it read.  The
\* preview is fittedImage: by FittedWithBase it is never nil here, and the
\* makePreviewCIImage after ?? is never evaluated.
drawFrame(v) ==
    LET preview == v.fittedImage[1]
        ciCenter == Point(v.centerPx.x, FSub(v.bounds.height, v.centerPx.y))
    IN  [filter |-> IF v.mode = "bump" THEN "CIBumpDistortion"
                    ELSE "CIPinchDistortion",
         image |-> preview,
         center |-> ciCenter,
         radius |-> v.radiusPx,
         scale |-> v.scaleVal,
         from |-> Props(v)]

\* mtkView(_:drawable:), run for a view marked for display: the mark is
\* taken, and with a base image the frame is rendered into a command
\* buffer that is committed with the drawable's presentation scheduled.
draw(v) ==
    IF v.baseImage = None THEN [v EXCEPT !.needsDisplay = FALSE]
    ELSE [v EXCEPT !.needsDisplay = FALSE,
                   !.committed = Append(v.committed, drawFrame(v))]

\* the command buffer committed first completes: its drawable is shown
present(v) ==
    [v EXCEPT !.committed = Tail(v.committed),
              !.presented = Some(Head(v.committed))]

\* What exportJPEG hands to the filter, lines 154-177, the view having a
\* base image.
exportFrame(v) ==
    LET base == v.baseImage[1]
        fit == v.imageAspectFitRect
        sx == FDiv(base.size.width, fit.width)
        sy == FDiv(base.size.height, fit.height)
        cxInFit == FSub(v.centerPx.x, fit.x)
        cyInFit == FSub(FSub(v.bounds.height, v.centerPx.y), fit.y)
        ciCenter == Point(FMul(cxInFit, sx), FMul(cyInFit, sy))
        radiusInImage == FMul(v.radiusPx, FMax(sx, sy))
    IN  [filter |-> IF v.mode = "bump" THEN "CIBumpDistortion"
                    ELSE "CIPinchDistortion",
         image |-> base,
         center |-> ciCenter,
         radius |-> radiusInImage,
         scale |-> v.scaleVal,
         from |-> Props(v)]

\* exportJPEG(quality:): nil without a base image, else the file of the
\* filtered base image
exportJPEG(v) ==
    IF v.baseImage = None THEN [isNil |-> TRUE]
    ELSE [isNil |-> FALSE, frame |-> exportFrame(v)]

\* ---- the magnifier shader
\* shaders.bulge of MagnifierToolGL.tsx.  A vec2 is [x, y] of highp floats.

length(v) == HSqrt(HAdd(HMul(v.x, v.x), HMul(v.y, v.y)))

\* main() for the fragment at coord = uv * resolution: the coordinate whose
\* quotient by resolution it hands to texture2D
bulge(coord, center, radius, strength) ==
    LET toCenter == Point(HSub(center.x, coord.x), HSub(center.y, coord.y))
        distance == length(toCenter)
        percent == HDiv(distance, radius)
        amount ==
            IF Less(CG(0), strength)
            THEN HMul(HMul(HSub(CG(1), percent), HSub(CG(1), percent)), strength)
            ELSE Neg(HMul(HSub(CG(1), HMul(percent, percent)), Magnitude(strength)))
    IN  IF Less(distance, radius)
        THEN Point(HSub(coord.x, HMul(toCenter.x, amount)),
                   HSub(coord.y, HMul(toCenter.y, amount)))
        ELSE coord

\* ---- the change listener

\* An array handed out by the log: its elements, and whether it is the very
\* array the log keeps in this.operations (then a push on it is a push on
\* the log).
Handed(elements, isLogArray) ==
    [elements |-> elements, isLogArray |-> isLogArray]

\* a getOperations that returns this.operations itself
getOperationsItself(L) == Handed(L.operations, TRUE)

\* getOperations(): [...this.operations], a new array
getOperations(L) == Handed(L.operations, FALSE)

\* notifyChange() on the log L: what the callback, if set, is called with
notifyChange(callback, L) == IF callback THEN <<getOperations(L)>> ELSE <<>>

\* a notifyChangeCalled in which undo returns before this.notifyChange()
notifyChangeNotOnUndo(name, L, a) == name # "undo"

\* a notifyChangeCalled that also notifies on the early returns of undo
\* and redo
notifyChangeAlways(name, L, a) == TRUE

\* whether the method `name`, called on L with arguments a, reaches its
\* this.notifyChange() line; no method reaches more than one
notifyChangeCalled(name, L, a) ==
    CASE name = "undo" -> canUndo(L)
      [] name = "redo" -> canRedo(L)
      [] name = "clearOperationsOfType" -> Len(OfType(L.operations, a.type)) > 0
      [] name = "resetTool" -> Len(OfType(L.operations, a.toolType)) > 0
      [] name = "clear" -> Len(L.operations) > 0
      [] OTHER -> TRUE

NoArgs == <<>>

\* ---- the editor screen
\* EditorScreen of part_002 and the LiquifyTool it mounts.  The screen is
\* the state of its last render: a setState made in a handler, the
\* setSession of the stack's onChange callback included, is applied when
\* the handler has returned, before the next handler runs.

DEFAULT_BRUSH_SIZE == 50

\* 0.5 and 0.8, as tenths
DEFAULT_BRUSH_STRENGTH == [tenths |-> 5]

DEFAULT_BRUSH_SOFTNESS == [tenths |-> 8]

\* LiquifyTool's first render: its state, and the PanResponder whose
\* handlers close over the values of that render.  useRef keeps this
\* PanResponder through every later render.
NewLiquifyTool ==
    [component |-> "LiquifyTool",
     currentStroke |-> <<>>,
     brushPosition |-> None,
     isDrawing |-> FALSE,
     brushSize |-> DEFAULT_BRUSH_SIZE,
     brushStrength |-> DEFAULT_BRUSH_STRENGTH,
     brushSoftness |-> DEFAULT_BRUSH_SOFTNESS,
     panResponder |-> [currentStroke |-> <<>>,
                       brushSize |-> DEFAULT_BRUSH_SIZE,
                       brushStrength |-> DEFAULT_BRUSH_STRENGTH,
                       brushSoftness |-> DEFAULT_BRUSH_SOFTNESS]]

NewMagnifierToolGL == [component |-> "MagnifierToolGL"]

\* the default canvas view
Canvas == [component |-> "Canvas"]

\* renderTool() for selectedTool
renderTool(selectedTool) ==
    IF selectedTool = Some("liquify") THEN NewLiquifyTool
    ELSE IF selectedTool = Some("magnifier") THEN NewMagnifierToolGL
    ELSE Canvas

\* the screen when initializeEditor has returned for a session
NewEditor(session) ==
    [mounted |-> TRUE,
     session |-> session,
     selectedTool |-> None,
     isProcessing |-> FALSE,
     saving |-> None,
     tool |-> renderTool(None)]

\* handleToolSelect(tool)
handleToolSelect(e, tool) ==
    LET selectedTool == IF e.selectedTool = Some(tool) THEN None ELSE Some(tool)
    IN  [e EXCEPT !.selectedTool = selectedTool, !.tool = renderTool(selectedTool)]

\* the onPress of Done: setSelectedTool(null)
closeTool(e) == [e EXCEPT !.selectedTool = None, !.tool = renderTool(None)]

\* {!selectedTool && (<View style={styles.controls}> ...)}: Undo, Redo,
\* Reset and the tool tray are rendered
controlsShown(e) == e.selectedTool = None

\* {selectedTool && (... Done ...)}
doneShown(e) == e.selectedTool # None

\* disabled={!selectedTool} of the Reset control
resetDisabled(e) == e.selectedTool = None

\* handleResetTool(): the log it leaves
handleResetTool(e, L) ==
    IF e.selectedTool = None THEN L
    ELSE IF e.selectedTool = Some("liquify") THEN resetTool(L, "liquify")
    ELSE IF e.selectedTool = Some("magnifier") THEN resetTool(L, "magnifier")
    ELSE L

\* the callback handed to stack.onChange, for what a call handed to it:
\* setSession(prev => prev ? { ...prev, ops } : null)
onChange(e, heard) ==
    IF heard = <<>> THEN e ELSE [e EXCEPT !.session.ops = heard[1].elements]

\* Date.now() at every Save
Now == [ms |-> 2]

\* handleSave() up to its await: session.updatedAt = Date.now() and
\* saveSession(session) is called with the session of this render
handleSave(e) ==
    LET session == [e.session EXCEPT !.updatedAt = Now.ms]
    IN  [e EXCEPT !.isProcessing = TRUE, !.session = session,
                  !.saving = Some(session)]

\* handleSave() after its await
handleSaveFinally(e) == [e EXCEPT !.isProcessing = FALSE, !.saving = None]

\* onPanResponderGrant
onPanResponderGrant(t, point) ==
    [t EXCEPT !.isDrawing = TRUE, !.brushPosition = Some(point),
              !.currentStroke = <<point>>]

\* onPanResponderMove
onPanResponderMove(t, point) ==
    [t EXCEPT !.brushPosition = Some(point),
              !.currentStroke = Append(@, point)]

\* onPanResponderRelease: the strokes it calls onStrokeEnd with.  The
\* handler reads currentStroke, brushSize, brushStrength and brushSoftness
\* of the render that created the PanResponder.
strokeEnded(t) ==
    IF Len(t.panResponder.currentStroke) > 1
    THEN <<[points |-> t.panResponder.currentStroke,
            size |-> t.panResponder.brushSize,
            strength |-> t.panResponder.brushStrength,
            softness |-> t.panResponder.brushSoftness]>>
    ELSE <<>>

onPanResponderRelease(t) ==
    [t EXCEPT !.isDrawing = FALSE, !.brushPosition = None,
              !.currentStroke = <<>>]

\* handleLiquifyStroke(stroke)
handleLiquifyStroke(L, stroke) == addOperation(L, Liquify(<<stroke>>, Undefined))

\* handleMagnifierApply(center, radius, scale), operationStack set
handleMagnifierApply(L, center, radius, scale) ==
    addOperation(L, [type |-> "magnifier", center |-> center,
                     radius |-> radius, scale |-> scale])

\* ------------------------------------------------------------- actions

\* One call: the log becomes L2, the call returns r.
Call(name, L2, r) ==
    /\ operations' = L2.operations
    /\ undoStack' = L2.undoStack
    /\ redoStack' = L2.redoStack
    /\ last' = name
    /\ ret' = r
    /\ pre' = cur
    /\ UNCHANGED outside

\* The snapshots an undo/redo pair is compared against.
Track(name, r) ==
    undone' = IF r.isNull /\ name \in {"undo", "redo"} THEN undone
              ELSE IF name = "undo" THEN Append(undone, operations)
              ELSE IF name = "redo" THEN Pop(undone)
              ELSE <<>>

\* The listener's side of a call with arguments a: the callback stays as it
\* is and is called where the method reaches notifyChange(), with the log
\* as the call leaves it.
Heard(name, a) ==
    /\ args' = a
    /\ onChangeCallback' = onChangeCallback
    /\ notified' = IF notifyChangeCalled(name, cur, a)
                   THEN notifyChange(onChangeCallback, cur')
                   ELSE <<>>

\* no storage call made yet
NoJournal ==
    [completed |-> 0, before |-> NoFiles, issued |-> 0, mixed |-> 0, begun |-> 0]

\* no saveSession call in flight
NoCalls == <<>>

\* no EditorScreen mounted
NoScreen == [mounted |-> FALSE]

\* nothing but the log, the files and the view in use
Elsewhere ==
    /\ journal = NoJournal
    /\ pending = NoCalls
    /\ screen = NoScreen

\* the log L just constructed, no file written, the view new
Ready(L) ==
    /\ operations = L.operations
    /\ undoStack = L.undoStack
    /\ redoStack = L.redoStack
    /\ last = "constructor"
    /\ ret = Void
    /\ pre = L
    /\ undone = <<>>
    /\ args = NoArgs
    /\ onChangeCallback = FALSE
    /\ notified = <<>>
    /\ files = NoFiles
    /\ view = NewView

Start(L) == Elsewhere /\ Ready(L)

\* ---- the log driven by addOperation, addOperations, undo and redo

BasicOps == {Magnifier(50, 3), Twirl(90)}

BasicArrays ==
    {<<>>, <<Twirl(90)>>, <<Magnifier(50, 3), Twirl(90)>>,
     <<Twirl(90), Twirl(90), Magnifier(50, 3)>>}

RECURSIVE SeqsUpTo(_, _)
SeqsUpTo(S, n) ==
    IF n = 0 THEN {<<>>}
    ELSE SeqsUpTo(S, n - 1)
         \cup {Append(s, x) : s \in {t \in SeqsUpTo(S, n - 1) : Len(t) = n - 1},
                              x \in S}

BasicInit == Start(constructor(<<>>))

BasicAddOperation ==
    \E op \in BasicOps :
        /\ Len(operations) < BasicMaxOps
        /\ Len(undoStack) < BasicMaxGroups
        /\ Call("addOperation", addOperation(cur, op), Void)
        /\ Track("addOperation", Void)
        /\ Heard("addOperation", [operation |-> op])

BasicAddOperations ==
    \E ops \in BasicArrays :
        /\ Len(operations) + Len(ops) <= BasicMaxOps
        /\ Len(undoStack) < BasicMaxGroups
        /\ Call("addOperations", addOperations(cur, ops), Void)
        /\ Track("addOperations", Void)
        /\ Heard("addOperations", [operations |-> ops])

BasicUndo ==
    /\ Call("undo", undo(cur), undoResult(cur))
    /\ Track("undo", undoResult(cur))
    /\ Heard("undo", NoArgs)

BasicRedo ==
    /\ Call("redo", redo(cur), redoResult(cur))
    /\ Track("redo", redoResult(cur))
    /\ Heard("redo", NoArgs)

BasicNext == BasicAddOperation \/ BasicAddOperations \/ BasicUndo \/ BasicRedo

SpecBasic == BasicInit /\ [][BasicNext]_vars

\* ---- the log driven by every public method

Ops == {Magnifier(50, 3), FaceParam("eyeSize", 5)}

Arrays ==
    {<<>>, <<Magnifier(50, 3)>>, <<Magnifier(50, 3), FaceParam("eyeSize", 5)>>,
     <<FaceParam("eyeSize", 5), FaceParam("eyeSize", 5)>>}

Types == {"magnifier", "faceParam", "liquify"}

Init == Start(constructor(<<>>))

AddOperation ==
    \E op \in Ops :
        /\ Len(operations) < MaxOps
        /\ Len(undoStack) < MaxGroups
        /\ Call("addOperation", addOperation(cur, op), Void)
        /\ UNCHANGED undone
        /\ Heard("addOperation", [operation |-> op])

AddOperations ==
    \E ops \in Arrays :
        /\ Len(operations) + Len(ops) <= MaxOps
        /\ Len(undoStack) < MaxGroups
        /\ Call("addOperations", addOperations(cur, ops), Void)
        /\ UNCHANGED undone
        /\ Heard("addOperations", [operations |-> ops])

UpdateLastOperation ==
    \E op \in Ops :
        /\ Len(operations) < MaxOps
        /\ Len(undoStack) < MaxGroups
        /\ Call("updateLastOperation", updateLastOperation(cur, op), Void)
        /\ UNCHANGED undone
        /\ Heard("updateLastOperation", [operation |-> op])

ReplaceOperationsOfType ==
    \E type \in Types, op \in Ops :
        /\ Len(undoStack) < MaxGroups
        /\ Call("replaceOperationsOfType",
                replaceOperationsOfType(cur, type, op), Void)
        /\ UNCHANGED undone
        /\ Heard("replaceOperationsOfType", [type |-> type, operation |-> op])

ClearOperationsOfType ==
    \E type \in Types :
        /\ Len(undoStack) < MaxGroups
        /\ Call("clearOperationsOfType", clearOperationsOfType(cur, type), Void)
        /\ UNCHANGED undone
        /\ Heard("clearOperationsOfType", [type |-> type])

ResetTool ==
    \E toolType \in Types :
        /\ Len(undoStack) < MaxGroups
        /\ Call("resetTool", resetTool(cur, toolType), Void)
        /\ UNCHANGED undone
        /\ Heard("resetTool", [toolType |-> toolType])

Clear ==
    /\ Len(undoStack) < MaxGroups
    /\ Call("clear", clear(cur), Void)
    /\ UNCHANGED undone
    /\ Heard("clear", NoArgs)

Reset ==
    /\ Call("reset", reset(cur), Void)
    /\ UNCHANGED undone
    /\ Heard("reset", NoArgs)

OptimizeOperations ==
    /\ Call("optimizeOperations", optimizeOperations(cur), Void)
    /\ UNCHANGED undone
    /\ Heard("optimizeOperations", NoArgs)

Undo ==
    /\ Call("undo", undo(cur), undoResult(cur))
    /\ UNCHANGED undone
    /\ Heard("undo", NoArgs)

Redo ==
    /\ Call("redo", redo(cur), redoResult(cur))
    /\ UNCHANGED undone
    /\ Heard("redo", NoArgs)

Next ==
    \/ AddOperation
    \/ AddOperations
    \/ Undo
    \/ Redo
    \/ UpdateLastOperation
    \/ ReplaceOperationsOfType
    \/ ClearOperationsOfType
    \/ ResetTool
    \/ Clear
    \/ Reset
    \/ OptimizeOperations

Spec == Init /\ [][Next]_vars

\* ---- the capacity scenario: single appends to an empty log, followed by
\* ---- undo calls or by one replaceOperationsOfType and then undo calls

\* the operation appended at position i
CapOp(i) == Magnifier(i, 3)

CapInit == Start(constructor(<<>>))

CapAddOperation ==
    /\ last \in {"constructor", "addOperation"}
    /\ Len(operations) < maxStackSize + CapExtra
    /\ Call("addOperation", addOperation(cur, CapOp(Len(operations) + 1)), Void)
    /\ Track("addOperation", Void)
    /\ Heard("addOperation", [operation |-> CapOp(Len(operations) + 1)])

CapUndo ==
    /\ last \in {"constructor", "addOperation", "undo", "replaceOperationsOfType"}
    /\ Call("undo", undo(cur), undoResult(cur))
    /\ Track("undo", undoResult(cur))
    /\ Heard("undo", NoArgs)

CapReplaceOperationsOfType ==
    /\ last \in {"constructor", "addOperation"}
    /\ Call("replaceOperationsOfType",
            replaceOperationsOfType(cur, "magnifier", CapOp(1)), Void)
    /\ Track("replaceOperationsOfType", Void)
    /\ Heard("replaceOperationsOfType",
             [type |-> "magnifier", operation |-> CapOp(1)])

CapNext == CapAddOperation \/ CapUndo \/ CapReplaceOperationsOfType

SpecCap == CapInit /\ [][CapNext]_vars

\* ---- the batch scenario: single appends to an empty log, then one
\* ---- addOperations, one undo and one redo

\* the batch of k operations appended after n operations
BatchOps(n, k) == [i \in 1..k |-> CapOp(n + i)]

BatchInit == Start(constructor(<<>>))

BatchAddOperation ==
    /\ last \in {"constructor", "addOperation"}
    /\ Len(operations) < maxStackSize + BatchExtra
    /\ Call("addOperation", addOperation(cur, CapOp(Len(operations) + 1)), Void)
    /\ Track("addOperation", Void)
    /\ Heard("addOperation", [operation |-> CapOp(Len(operations) + 1)])

BatchAddOperations ==
    \E k \in 0..MaxBatch :
        /\ last \in {"constructor", "addOperation"}
        /\ Call("addOperations",
                addOperations(cur, BatchOps(Len(operations), k)), Void)
        /\ Track("addOperations", Void)
        /\ Heard("addOperations", [operations |-> BatchOps(Len(operations), k)])

BatchUndo ==
    /\ last = "addOperations"
    /\ Call("undo", undo(cur), undoResult(cur))
    /\ Track("undo", undoResult(cur))
    /\ Heard("undo", NoArgs)

BatchRedo ==
    /\ last = "undo"
    /\ Call("redo", redo(cur), redoResult(cur))
    /\ Track("redo", redoResult(cur))
    /\ Heard("redo", NoArgs)

BatchNext == BatchAddOperation \/ BatchAddOperations \/ BatchUndo \/ BatchRedo

SpecBatch == BatchInit /\ [][BatchNext]_vars

\* ---- the log edited through addOperation and updateLastOperation, with
\* ---- two different operations of one kind among the inputs

EditOps == {Magnifier(50, 3), Magnifier(60, 3), FaceParam("eyeSize", 5)}

EditInit == Start(constructor(<<>>))

EditAddOperation ==
    \E op \in EditOps :
        /\ Len(operations) < EditMaxOps
        /\ Len(undoStack) < EditMaxGroups
        /\ Call("addOperation", addOperation(cur, op), Void)
        /\ UNCHANGED undone
        /\ Heard("addOperation", [operation |-> op])

EditUpdateLastOperation ==
    \E op \in EditOps :
        /\ Len(operations) < EditMaxOps
        /\ Len(undoStack) < EditMaxGroups
        /\ Call("updateLastOperation", updateLastOperation(cur, op), Void)
        /\ UNCHANGED undone
        /\ Heard("updateLastOperation", [operation |-> op])

EditUndo ==
    /\ Call("undo", undo(cur), undoResult(cur))
    /\ UNCHANGED undone
    /\ Heard("undo", NoArgs)

EditRedo ==
    /\ Call("redo", redo(cur), redoResult(cur))
    /\ UNCHANGED undone
    /\ Heard("redo", NoArgs)

EditNext == EditAddOperation \/ EditUpdateLastOperation \/ EditUndo \/ EditRedo

SpecEdit == EditInit /\ [][EditNext]_vars

\* ---- optimizeOperations on a log constructed from any initialOps

OptOps ==
    {Magnifier(50, 3), Twirl(90),
     FaceParam("eyeSize", 5), FaceParam("eyeSize", 8), FaceParam("noseWidth", 5),
     BodyParam("belly", 5), BodyParam("belly", 7),
     Liquify(<<Stroke(1)>>, "mask1"), Liquify(<<Stroke(2)>>, Undefined),
     Liquify(<<>>, Undefined),
     Color(1), Color(2)}

OptInit == \E initialOps \in SeqsUpTo(OptOps, MaxLen) :
               Start(constructor(initialOps))

OptOptimizeOperations ==
    /\ Call("optimizeOperations", optimizeOperations(cur), Void)
    /\ UNCHANGED undone
    /\ Heard("optimizeOperations", NoArgs)

OptNext == OptOptimizeOperations

SpecOpt == OptInit /\ [][OptNext]_vars

\* ---- a session reopened: the log constructed from the session's ops,
\* ---- then undo and redo

\* new OperationStackManager(currentSession.ops)
OpenInit ==
    \E initialOps \in SeqsUpTo(OptOps, MaxLen) :
        LET L == constructor(initialOps)
        IN  /\ operations = L.operations
            /\ undoStack = L.undoStack
            /\ redoStack = L.redoStack
            /\ last = "constructor"
            /\ ret = Void
            /\ pre = L
            /\ undone = <<>>
            /\ args = [initialOps |-> initialOps]
            /\ onChangeCallback = FALSE
            /\ notified = <<>>
            /\ files = NoFiles
            /\ view = NewView
            /\ Elsewhere

OpenUndo ==
    /\ Call("undo", undo(cur), undoResult(cur))
    /\ UNCHANGED undone
    /\ Heard("undo", NoArgs)

OpenRedo ==
    /\ Call("redo", redo(cur), redoResult(cur))
    /\ UNCHANGED undone
    /\ Heard("redo", NoArgs)

OpenNext == OpenUndo \/ OpenRedo

SpecOpen == OpenInit /\ [][OpenNext]_vars

\* ---- the log where the kind OneType only enters through
\* ---- replaceOperationsOfType(OneType, op)

OneType == "faceParam"

OneOps == {FaceParam("eyeSize", 5), FaceParam("eyeSize", 8)}

OtherOps == {Magnifier(50, 3)}

OneInit == \E initialOps \in SeqsUpTo(OtherOps, 1) : Start(constructor(initialOps))

OneReplaceOperationsOfType ==
    \E op \in OneOps :
        /\ Len(operations) < OneMaxOps
        /\ Len(undoStack) < OneMaxGroups
        /\ Call("replaceOperationsOfType",
                replaceOperationsOfType(cur, OneType, op), Void)
        /\ UNCHANGED undone
        /\ Heard("replaceOperationsOfType", [type |-> OneType, operation |-> op])

OneAddOperation ==
    \E op \in OtherOps :
        /\ Len(operations) < OneMaxOps
        /\ Len(undoStack) < OneMaxGroups
        /\ Call("addOperation", addOperation(cur, op), Void)
        /\ UNCHANGED undone
        /\ Heard("addOperation", [operation |-> op])

OneUndo ==
    /\ Call("undo", undo(cur), undoResult(cur))
    /\ UNCHANGED undone
    /\ Heard("undo", NoArgs)

OneRedo ==
    /\ Call("redo", redo(cur), redoResult(cur))
    /\ UNCHANGED undone
    /\ Heard("redo", NoArgs)

OneResetTool ==
    \E toolType \in Types :
        /\ Len(undoStack) < OneMaxGroups
        /\ Call("resetTool", resetTool(cur, toolType), Void)
        /\ UNCHANGED undone
        /\ Heard("resetTool", [toolType |-> toolType])

OneNext ==
    \/ OneReplaceOperationsOfType
    \/ OneAddOperation
    \/ OneUndo
    \/ OneRedo
    \/ OneResetTool

SpecOne == OneInit /\ [][OneNext]_vars

\* ---- the log with a change listener: every public method, onChange, and
\* ---- a listener that pushes onto the array it was handed

ListenInit == \E initialOps \in SeqsUpTo(Ops, 1) : Start(constructor(initialOps))

\* onChange(callback)
OnChange ==
    /\ ~onChangeCallback
    /\ onChangeCallback' = TRUE
    /\ last' = "onChange"
    /\ ret' = Void
    /\ pre' = cur
    /\ args' = NoArgs
    /\ notified' = <<>>
    /\ UNCHANGED <<operations, undoStack, redoStack, undone>>
    /\ UNCHANGED outside

ListenAddOperation ==
    \E op \in Ops :
        /\ Len(operations) < ListenMaxOps
        /\ Len(undoStack) < ListenMaxGroups
        /\ Call("addOperation", addOperation(cur, op), Void)
        /\ UNCHANGED undone
        /\ Heard("addOperation", [operation |-> op])

ListenAddOperations ==
    \E ops \in Arrays :
        /\ Len(operations) + Len(ops) <= ListenMaxOps
        /\ Len(undoStack) < ListenMaxGroups
        /\ Call("addOperations", addOperations(cur, ops), Void)
        /\ UNCHANGED undone
        /\ Heard("addOperations", [operations |-> ops])

ListenUpdateLastOperation ==
    \E op \in Ops :
        /\ Len(operations) < ListenMaxOps
        /\ Len(undoStack) < ListenMaxGroups
        /\ Call("updateLastOperation", updateLastOperation(cur, op), Void)
        /\ UNCHANGED undone
        /\ Heard("updateLastOperation", [operation |-> op])

ListenReplaceOperationsOfType ==
    \E type \in Types, op \in Ops :
        /\ Len(operations) < ListenMaxOps
        /\ Len(undoStack) < ListenMaxGroups
        /\ Call("replaceOperationsOfType", replaceOperationsOfType(cur, type, op),
                Void)
        /\ UNCHANGED undone
        /\ Heard("replaceOperationsOfType", [type |-> type, operation |-> op])

ListenClearOperationsOfType ==
    \E type \in Types :
        /\ Len(undoStack) < ListenMaxGroups
        /\ Call("clearOperationsOfType", clearOperationsOfType(cur, type), Void)
        /\ UNCHANGED undone
        /\ Heard("clearOperationsOfType", [type |-> type])

ListenResetTool ==
    \E toolType \in Types :
        /\ Len(undoStack) < ListenMaxGroups
        /\ Call("resetTool", resetTool(cur, toolType), Void)
        /\ UNCHANGED undone
        /\ Heard("resetTool", [toolType |-> toolType])

ListenClear ==
    /\ Len(undoStack) < ListenMaxGroups
    /\ Call("clear", clear(cur), Void)
    /\ UNCHANGED undone
    /\ Heard("clear", NoArgs)

ListenReset ==
    /\ Call("reset", reset(cur), Void)
    /\ UNCHANGED undone
    /\ Heard("reset", NoArgs)

ListenOptimizeOperations ==
    /\ Call("optimizeOperations", optimizeOperations(cur), Void)
    /\ UNCHANGED undone
    /\ Heard("optimizeOperations", NoArgs)

ListenUndo ==
    /\ Call("undo", undo(cur), undoResult(cur))
    /\ UNCHANGED undone
    /\ Heard("undo", NoArgs)

ListenRedo ==
    /\ Call("redo", redo(cur), redoResult(cur))
    /\ UNCHANGED undone
    /\ Heard("redo", NoArgs)

\* The callback does ops.push(op) on the array it was called with, once per
\* call; the push lands in this.operations too where that array is the log's
\* own.
ListenerPush ==
    \E op \in Ops :
        /\ notified # <<>>
        /\ last # "ops.push"
        /\ notified' = <<Handed(Append(notified[1].elements, op),
                                notified[1].isLogArray)>>
        /\ operations' = IF notified[1].isLogArray
                         THEN Append(operations, op)
                         ELSE operations
        /\ last' = "ops.push"
        /\ ret' = Void
        /\ pre' = cur
        /\ args' = [operation |-> op]
        /\ UNCHANGED <<undoStack, redoStack, undone, onChangeCallback>>
        /\ UNCHANGED outside

ListenNext ==
    \/ OnChange
    \/ ListenAddOperation
    \/ ListenAddOperations
    \/ ListenUpdateLastOperation
    \/ ListenReplaceOperationsOfType
    \/ ListenClearOperationsOfType
    \/ ListenResetTool
    \/ ListenClear
    \/ ListenReset
    \/ ListenOptimizeOperations
    \/ ListenUndo
    \/ ListenRedo
    \/ ListenerPush

SpecListen == ListenInit /\ [][ListenNext]_vars

\* ---- sessions saved, loaded, listed and deleted, session files left by
\* ---- something else, and a log serialized and parsed back

\* One call of the storage service: it returns r and leaves the files F2.
Served(a, r, F2) ==
    /\ args' = a
    /\ ret' = r
    /\ files' = F2
    /\ UNCHANGED <<operations, undoStack, redoStack, pre, undone,
                   onChangeCallback, notified, view, journal, pending, screen>>

StoreIds == {"session_1", "session_2"}

Session(id, ops, updatedAt) ==
    [id |-> id, sourceUri |-> "photo.jpg", width |-> 4000, height |-> 3000,
     ops |-> ops, previewUri |-> Undefined, createdAt |-> 1,
     updatedAt |-> updatedAt]

StoreOps == {Magnifier(50, 3), Liquify(<<Stroke(1)>>, Undefined)}

StoreArrays ==
    {<<>>, <<Magnifier(50, 3)>>,
     <<Liquify(<<Stroke(1)>>, Undefined), FaceParam("eyeSize", 5)>>}

StoreSessions ==
    {Session(id, ops, updatedAt) :
        id \in StoreIds, ops \in StoreArrays, updatedAt \in {1, 2}}

\* entries that are no Operation: a type no variant has, and no type at all
Sticker == [type |-> "sticker", name |-> "star"]

Untyped == [radius |-> 50]

\* what a session file can hold that saveSession did not write: a text cut
\* short, and sessions written with entries that are no Operation
ForeignSessionTexts(id) ==
    {NotJson,
     stringifySession(Session(id, <<Magnifier(50, 3), Sticker>>, 1)),
     stringifySession(Session(id, <<Untyped>>, 2))}

ForeignLogTexts ==
    {NotJson,
     Json([operations |-> <<Sticker, Magnifier(50, 3)>>]),
     Json([operations |-> <<Untyped>>, undoStack |-> << <<Untyped>> >>,
           redoStack |-> <<>>])}

StoreInit == Start(constructor(<<>>))

\* The log and the files share nothing: a run calls the storage service or
\* the log, not both.
StoreCalls ==
    {"saveSession", "loadSession", "getAllSessions", "deleteSession",
     "foreign write"}

SaveSession ==
    \E session \in StoreSessions :
        /\ last \in StoreCalls \cup {"constructor"}
        /\ last' = "saveSession"
        /\ Served([session |-> session], ReturnedNull,
                  saveSession(files, session))

LoadSession ==
    \E sessionId \in StoreIds :
        /\ last \in StoreCalls \cup {"constructor"}
        /\ last' = "loadSession"
        /\ Served([sessionId |-> sessionId], loadSession(files, sessionId),
                  files)

GetAllSessions ==
    /\ last \in StoreCalls \cup {"constructor"}
    /\ last' = "getAllSessions"
    /\ Served(NoArgs, getAllSessions(files), files)

DeleteSession ==
    \E sessionId \in StoreIds :
        /\ last \in StoreCalls \cup {"constructor"}
        /\ last' = "deleteSession"
        /\ Served([sessionId |-> sessionId], ReturnedNull,
                  deleteSession(files, sessionId))

\* the file of a saved session comes to hold a foreign text
ForeignWrite ==
    \E sessionId \in StoreIds :
        \E text \in ForeignSessionTexts(sessionId) :
            /\ exists(files, sessionPath(sessionId))
            /\ last \in StoreCalls \cup {"constructor"}
            /\ last' = "foreign write"
            /\ Served([sessionId |-> sessionId], ReturnedNull,
                      writeAsString(files, sessionPath(sessionId), text))

StoreAddOperation ==
    \E op \in StoreOps :
        /\ files = NoFiles
        /\ Len(operations) < StoreMaxOps
        /\ Call("addOperation", addOperation(cur, op), Void)
        /\ UNCHANGED undone
        /\ Heard("addOperation", [operation |-> op])

StoreUndo ==
    /\ files = NoFiles
    /\ Call("undo", undo(cur), undoResult(cur))
    /\ UNCHANGED undone
    /\ Heard("undo", NoArgs)

\* OperationStackManager.fromJSON(log.toJSON()) takes the place of the log
ToJSONFromJSON ==
    /\ files = NoFiles
    /\ Call("fromJSON(toJSON())", fromJSON(toJSON(cur)).manager,
            fromJSON(toJSON(cur)))
    /\ args' = NoArgs
    /\ onChangeCallback' = FALSE
    /\ notified' = <<>>
    /\ UNCHANGED undone

\* OperationStackManager.fromJSON(json) of a foreign text takes its place
FromJSON ==
    \E json \in ForeignLogTexts :
        /\ files = NoFiles
        /\ Call("fromJSON", fromJSON(json).manager, fromJSON(json))
        /\ args' = [json |-> json]
        /\ onChangeCallback' = FALSE
        /\ notified' = <<>>
        /\ UNCHANGED undone

StoreNext ==
    \/ SaveSession
    \/ LoadSession
    \/ GetAllSessions
    \/ DeleteSession
    \/ ForeignWrite
    \/ StoreAddOperation
    \/ StoreUndo
    \/ ToJSONFromJSON
    \/ FromJSON

SpecStore == StoreInit /\ [][StoreNext]_vars

\* ---- the log handed magnifier operations with radii of either sign

GeomRadii == {50, 0 - 5}

GeomOps == {Magnifier(radius, 3) : radius \in GeomRadii} \cup {FaceParam("eyeSize", 5)}

GeomInit == Start(constructor(<<>>))

HandleMagnifierApply ==
    \E radius \in GeomRadii :
        /\ Len(operations) < GeomMaxOps
        /\ Call("addOperation",
                handleMagnifierApply(cur, [x |-> 100, y |-> 100], radius, 3), Void)
        /\ UNCHANGED undone
        /\ Heard("addOperation", [operation |-> Magnifier(radius, 3)])

GeomAddOperations ==
    \E op1 \in GeomOps, op2 \in GeomOps :
        /\ Len(operations) + 2 <= GeomMaxOps
        /\ Call("addOperations", addOperations(cur, <<op1, op2>>), Void)
        /\ UNCHANGED undone
        /\ Heard("addOperations", [operations |-> <<op1, op2>>])

GeomUpdateLastOperation ==
    \E op \in GeomOps :
        /\ Len(operations) < GeomMaxOps
        /\ Call("updateLastOperation", updateLastOperation(cur, op), Void)
        /\ UNCHANGED undone
        /\ Heard("updateLastOperation", [operation |-> op])

GeomReplaceOperationsOfType ==
    \E op \in GeomOps :
        /\ Len(operations) < GeomMaxOps
        /\ Len(undoStack) < GeomMaxOps
        /\ Call("replaceOperationsOfType",
                replaceOperationsOfType(cur, op.type, op), Void)
        /\ UNCHANGED undone
        /\ Heard("replaceOperationsOfType", [type |-> op.type, operation |-> op])

GeomNext ==
    \/ HandleMagnifierApply
    \/ GeomAddOperations
    \/ GeomUpdateLastOperation
    \/ GeomReplaceOperationsOfType

SpecGeom == GeomInit /\ [][GeomNext]_vars

\* ------------------------------------------------------------------------
\* aspectFitRect applied to image sizes in containers: camera and screen
\* sizes, and sizes whose ratios have no finite binary expansion.

FitImages ==
    {<<4000, 3000>>, <<3000, 4000>>, <<3024, 4032>>, <<1920, 1080>>,
     <<1179, 2556>>, <<640, 480>>, <<100, 300>>, <<49, 13>>, <<7, 3>>,
     <<3, 7>>, <<1, 22>>, <<1, 1>>}

FitContainers ==
    {<<800, 600>>, <<390, 844>>, <<844, 390>>, <<375, 667>>, <<430, 932>>,
     <<1024, 768>>, <<320, 480>>, <<100, 100>>, <<1, 1>>}

FitInit == Start(constructor(<<>>))

AspectFitRect ==
    \E image \in FitImages, box \in FitContainers :
        LET imageSize == Size(image[1], image[2])
            container == Size(box[1], box[2])
        IN  /\ last = "constructor"
            /\ last' = "aspectFitRect"
            /\ Served([imageSize |-> imageSize, container |-> container],
                      aspectFitRect(imageSize, container), files)

FitNext == AspectFitRect

SpecFit == FitInit /\ [][FitNext]_vars

\* ------------------------------------------------------------------------
\* The native warp view between React's prop updates, UIKit's layout and
\* saveAsync: the props arrive in any order, before or after the view has
\* its bounds.

Shown(a, r, v2) ==
    /\ args' = a
    /\ ret' = r
    /\ view' = v2
    /\ UNCHANGED <<operations, undoStack, redoStack, pre, undone,
                   onChangeCallback, notified, files, journal, pending, screen>>

WarpImages == {None, Some(Size(4000, 3000))}

WarpBounds == {Size(0, 0), Size(390, 844), Size(800, 600)}

WarpCenters == {<<CG(100), CG(100)>>, <<CG(50)>>}

WarpRadii == {CG(50)}

WarpScales == {FDiv(CG(1), CG(2))}

WarpModes == {"bump"}

WarpInit == Start(constructor(<<>>))

SetSource ==
    \E image \in WarpImages :
        /\ last' = "source"
        /\ Shown([source |-> image], Void, Prop_source(view, image))

SetCenter ==
    \E c \in WarpCenters :
        /\ last' = "center"
        /\ Shown([center |-> c], Void, Prop_center(view, c))

SetRadius ==
    \E r \in WarpRadii :
        /\ last' = "radius"
        /\ Shown([radius |-> r], Void, Prop_radius(view, r))

SetScale ==
    \E sc \in WarpScales :
        /\ last' = "scale"
        /\ Shown([scale |-> sc], Void, Prop_scale(view, sc))

SetMode ==
    \E m \in WarpModes :
        /\ last' = "mode"
        /\ Shown([mode |-> m], Void, Prop_mode(view, m))

LayoutSubviews ==
    \E bounds \in WarpBounds :
        /\ last' = "layoutSubviews"
        /\ Shown([bounds |-> bounds], Void, layoutSubviews(view, bounds))

ExportJPEG ==
    /\ last' = "exportJPEG"
    /\ Shown(NoArgs, exportJPEG(view), view)

ExportNext ==
    \/ SetSource
    \/ SetCenter
    \/ SetRadius
    \/ SetScale
    \/ SetMode
    \/ LayoutSubviews
    \/ ExportJPEG

SpecExport == WarpInit /\ [][ExportNext]_vars

\* ------------------------------------------------------------------------
\* The preview: the view is laid out and given its image once, the four
\* props change, MTKView runs the draw for a marked view, and the frames
\* committed reach the screen in their order, each at its own time.

Draw ==
    /\ view.needsDisplay
    /\ Len(view.committed) < MaxCommitted
    /\ last' = "draw"
    /\ Shown(NoArgs, Void, draw(view))

Present ==
    /\ view.committed # <<>>
    /\ last' = "present"
    /\ Shown(NoArgs, Void, present(view))

PreviewNext ==
    \/ (IsZero(view.bounds.width) /\ LayoutSubviews)
    \/ (view.baseImage = None /\ SetSource)
    \/ SetCenter
    \/ SetRadius
    \/ SetScale
    \/ SetMode
    \/ Draw
    \/ Present

SpecPreview == WarpInit /\ [][PreviewNext]_vars

\* ------------------------------------------------------------------------
\* The shader run for fragments of a 256 x 256 image around the circle.

ShaderResolution == Point(CG(256), CG(256))

ShaderCenter == Point(CG(128), CG(128))

ShaderCoords == {128 + 16 * k : k \in (0 - 6)..6} \cup {127, 131, 140}

ShaderRadii == {CG(80), CG(30)}

ShaderStrengths ==
    {CG(1), HDiv(CG(1), CG(2)), HDiv(CG(3), CG(10)), CG(0),
     Neg(HDiv(CG(1), CG(2))), CG(0 - 1)}

ShaderInit == Start(constructor(<<>>))

Bulge ==
    \E x \in ShaderCoords, y \in ShaderCoords,
       radius \in ShaderRadii, strength \in ShaderStrengths :
        /\ last = "constructor"
        /\ last' = "bulge"
        /\ Served([coord |-> Point(CG(x), CG(y)), center |-> ShaderCenter,
                   radius |-> radius, strength |-> strength,
                   resolution |-> ShaderResolution],
                  bulge(Point(CG(x), CG(y)), ShaderCenter, radius, strength),
                  files)

ShaderNext == Bulge

SpecShader == ShaderInit /\ [][ShaderNext]_vars





\* ------------------------------------------------------------------------
\* ---- the sessions index: new sessions saved one after the other, past
\* ---- HISTORY_LIMIT, then saves and deletions of any kind; no call starts
\* ---- before the one before it has completed

\* ImageUtils.generateSessionId(): the n-th id it makes
IndexId(n) == "session_" \o ToString(n)

\* the ids the index file of F lists
IdsOf(F) ==
    IF exists(F, SESSIONS_INDEX_FILE) /\ F[SESSIONS_INDEX_FILE].valid
    THEN F[SESSIONS_INDEX_FILE].value ELSE <<>>

\* the sessions a call is made for: the one listed first, the one listed
\* last, and the one saved first of all
KnownIds ==
    (IF IdsOf(files) = <<>> THEN {}
     ELSE {Head(IdsOf(files)), Last(IdsOf(files))})
    \cup (IF journal.issued > 0 THEN {IndexId(1)} ELSE {})

\* One completed call of the storage service, kept in the journal.
Logged(name, a, F2, isNew, isMixed) ==
    /\ last' = name
    /\ args' = a
    /\ ret' = ReturnedNull
    /\ files' = F2
    /\ journal' = [journal EXCEPT
                       !.completed = @ + 1,
                       !.before = files,
                       !.issued = @ + (IF isNew THEN 1 ELSE 0),
                       !.mixed = @ + (IF isMixed THEN 1 ELSE 0)]
    /\ UNCHANGED <<operations, undoStack, redoStack, pre, undone,
                   onChangeCallback, notified, view, pending, screen>>

IndexInit == Start(constructor(<<>>))

\* saveSession of a session with a new id, in the run of new sessions
IndexSaveNew ==
    LET session == Session(IndexId(journal.issued + 1), <<>>, 1)
    IN  /\ journal.mixed = 0
        /\ journal.issued < HISTORY_LIMIT + IndexExtra
        /\ Logged("saveSession", [session |-> session],
                  saveSession(files, session), TRUE, FALSE)

\* saveSession of a session with a new id, after that run
IndexSaveNewLater ==
    LET session == Session(IndexId(journal.issued + 1), <<>>, 1)
    IN  /\ journal.mixed \in 1..(IndexMaxMixed - 1)
        /\ Logged("saveSession", [session |-> session],
                  saveSession(files, session), TRUE, TRUE)

\* saveSession of a session saved before
IndexSaveAgain ==
    \E id \in KnownIds :
        LET session == Session(id, <<Magnifier(50, 3)>>, 2)
        IN  /\ journal.mixed < IndexMaxMixed
            /\ Logged("saveSession", [session |-> session],
                      saveSession(files, session), FALSE, TRUE)

IndexDeleteSession ==
    \E id \in KnownIds :
        /\ journal.mixed < IndexMaxMixed
        /\ Logged("deleteSession", [sessionId |-> id],
                  deleteSession(files, id), FALSE, TRUE)

IndexNext ==
    \/ IndexSaveNew
    \/ IndexSaveNewLater
    \/ IndexSaveAgain
    \/ IndexDeleteSession

SpecIndex == IndexInit /\ [][IndexNext]_vars

\* ------------------------------------------------------------------------
\* ---- saveSession calls that overlap: a call runs up to its next await,
\* ---- and another call may run before it resumes

Calls == {1, 2}

Idle == [pc |-> "idle"]

\* the call c of saveSession goes on to `next`
Resumed(c, next) == pending' = [pending EXCEPT ![c] = next]

\* One step of a call in flight.
Stepped(name, c, F2) ==
    /\ last' = name
    /\ args' = [call |-> c]
    /\ ret' = ReturnedNull
    /\ files' = F2
    /\ UNCHANGED <<operations, undoStack, redoStack, pre, undone,
                   onChangeCallback, notified, view, screen>>

OverlapInit ==
    /\ Ready(constructor(<<>>))
    /\ journal = NoJournal
    /\ screen = NoScreen
    /\ pending = [c \in Calls |-> Idle]

\* saveSession(session) is called: it computes JSON.stringify(session),
\* hands the write to FileSystem and awaits it
BeginSaveSession ==
    \E c \in Calls, id \in StoreIds :
        LET session == Session(id, <<>>, 1)
        IN  /\ pending[c].pc \in {"idle", "done"}
            /\ journal.begun < OverlapMaxCalls
            /\ Resumed(c, [pc |-> "writeAsStringAsync(sessionPath)",
                           session |-> session,
                           text |-> stringifySession(session)])
            /\ journal' = [journal EXCEPT !.begun = @ + 1]
            /\ Stepped("saveSession", c, files)

\* the session file is written; updateSessionsIndex starts and awaits
\* getInfoAsync
WriteSessionFile ==
    \E c \in Calls :
        /\ pending[c].pc = "writeAsStringAsync(sessionPath)"
        /\ Resumed(c, [pc |-> "getInfoAsync",
                       session |-> pending[c].session])
        /\ UNCHANGED journal
        /\ Stepped("writeAsStringAsync(sessionPath)", c,
                   writeAsString(files, sessionPath(pending[c].session.id),
                                 pending[c].text))

\* sessionIds after indexOf, splice and unshift
unshifted(stored, id) ==
    LET first == IF \E i \in 1..Len(stored) : stored[i] = id
                 THEN CHOOSE i \in 1..Len(stored) :
                          /\ stored[i] = id
                          /\ \A j \in 1..(i - 1) : stored[j] # id
                 ELSE 0
    IN  <<id>> \o (IF first = 0 THEN stored
                   ELSE SubSeq(stored, 1, first - 1)
                            \o SubSeq(stored, first + 1, Len(stored)))

\* getInfoAsync answers: where there is an index file the call awaits
\* readAsStringAsync, where there is none it goes on with no ids and
\* awaits the write of the index
GetInfo ==
    \E c \in Calls :
        /\ pending[c].pc = "getInfoAsync"
        /\ Resumed(c, IF exists(files, SESSIONS_INDEX_FILE)
                      THEN [pc |-> "readAsStringAsync",
                            session |-> pending[c].session]
                      ELSE [pc |-> "writeAsStringAsync(index)",
                            session |-> pending[c].session,
                            sessionIds |-> unshifted(<<>>, pending[c].session.id)])
        /\ UNCHANGED journal
        /\ Stepped("getInfoAsync", c, files)

\* readAsStringAsync answers: the call parses the text, moves its id to
\* the front and awaits the write of the index; a text that is not JSON
\* ends the call in the catch of updateSessionsIndex
ReadIndex ==
    \E c \in Calls :
        /\ pending[c].pc = "readAsStringAsync"
        /\ Resumed(c, IF JSON_parse(files[SESSIONS_INDEX_FILE]).threw
                      THEN [pc |-> "done", session |-> pending[c].session]
                      ELSE [pc |-> "writeAsStringAsync(index)",
                            session |-> pending[c].session,
                            sessionIds |->
                                unshifted(JSON_parse(files[SESSIONS_INDEX_FILE]).value,
                                          pending[c].session.id)])
        /\ journal' = IF JSON_parse(files[SESSIONS_INDEX_FILE]).threw
                      THEN [journal EXCEPT !.completed = @ + 1]
                      ELSE journal
        /\ Stepped("readAsStringAsync", c, files)

\* the sessions past HISTORY_LIMIT are deleted, one awaited after the
\* other (here with no other call in between), the index is written and
\* the call returns
WriteIndex ==
    \E c \in Calls :
        LET sessionIds == pending[c].sessionIds
            kept == SubSeq(sessionIds, 1, Min(HISTORY_LIMIT, Len(sessionIds)))
            sessionsToDelete == SubSeq(sessionIds, HISTORY_LIMIT + 1, Len(sessionIds))
        IN  /\ pending[c].pc = "writeAsStringAsync(index)"
            /\ Resumed(c, [pc |-> "done", session |-> pending[c].session])
            /\ journal' = [journal EXCEPT !.completed = @ + 1]
            /\ Stepped("writeAsStringAsync(index)", c,
                       writeAsString(deleteSessions(files, sessionsToDelete),
                                     SESSIONS_INDEX_FILE, stringifyIds(kept)))

OverlapNext ==
    \/ BeginSaveSession
    \/ WriteSessionFile
    \/ GetInfo
    \/ ReadIndex
    \/ WriteIndex

SpecOverlap == OverlapInit /\ [][OverlapNext]_vars

\* ------------------------------------------------------------------------
\* ---- the editor: a session opened, tools selected and closed, the
\* ---- magnifier applied, liquify gestures, Undo, Redo, Reset and Save

EditorTools == {"liquify", "magnifier", "body"}

EditorSessions ==
    {Session("session_1", ops, 1) : ops \in {<<>>, <<Magnifier(50, 3)>>}}

EditorScales == {3, 0 - 3}

GesturePoints == {[x |-> 10, y |-> 10], [x |-> 20, y |-> 25]}

\* what the stack hands to its onChange callback in the call of `method`
\* that leaves the log L2
StackHeard(method, a, L2) ==
    IF notifyChangeCalled(method, cur, a)
    THEN notifyChange(onChangeCallback, L2)
    ELSE <<>>

\* One handler of the screen has run: the log is L2, the screen is e2 with
\* what the stack handed to onChange applied, the files are F2.
Handled(name, a, r, L2, heard, e2, F2) ==
    /\ operations' = L2.operations
    /\ undoStack' = L2.undoStack
    /\ redoStack' = L2.redoStack
    /\ last' = name
    /\ args' = a
    /\ ret' = r
    /\ pre' = cur
    /\ notified' = heard
    /\ screen' = onChange(e2, heard)
    /\ files' = F2
    /\ UNCHANGED <<undone, onChangeCallback, view, journal, pending>>

\* initializeEditor() has returned for a session saved before: the stack
\* is new OperationStackManager(session.ops) with the callback set
EditorInit ==
    \E session \in EditorSessions :
        LET L == constructor(session.ops)
        IN  /\ operations = L.operations
            /\ undoStack = L.undoStack
            /\ redoStack = L.redoStack
            /\ last = "initializeEditor"
            /\ ret = Void
            /\ pre = L
            /\ undone = <<>>
            /\ args = [session |-> session]
            /\ onChangeCallback = TRUE
            /\ notified = <<>>
            /\ files = saveSession(NoFiles, session)
            /\ view = NewView
            /\ journal = NoJournal
            /\ pending = NoCalls
            /\ screen = NewEditor(session)

\* a tool button of the tray is pressed
EditorToolSelect ==
    \E tool \in EditorTools :
        /\ controlsShown(screen)
        /\ Handled("handleToolSelect", [tool |-> tool], Void, cur, <<>>,
                   handleToolSelect(screen, tool), files)

\* Done is pressed
EditorDone ==
    /\ doneShown(screen)
    /\ Handled("Done", NoArgs, Void, cur, <<>>, closeTool(screen), files)

\* Undo is pressed where it is enabled
EditorUndo ==
    /\ controlsShown(screen)
    /\ canUndo(cur)
    /\ Handled("handleUndo", NoArgs, undoResult(cur), undo(cur),
               StackHeard("undo", NoArgs, undo(cur)), screen, files)

\* Redo is pressed where it is enabled
EditorRedo ==
    /\ controlsShown(screen)
    /\ canRedo(cur)
    /\ Handled("handleRedo", NoArgs, redoResult(cur), redo(cur),
               StackHeard("redo", NoArgs, redo(cur)), screen, files)

\* Reset is pressed: disabled, the control calls nothing
EditorReset ==
    /\ controlsShown(screen)
    /\ IF resetDisabled(screen)
       THEN Handled("Reset (disabled)", NoArgs, Void, cur, <<>>, screen, files)
       ELSE Handled("handleResetTool", NoArgs, Void,
                    handleResetTool(screen, cur),
                    StackHeard("resetTool",
                               [toolType |-> screen.selectedTool[1]],
                               handleResetTool(screen, cur)),
                    screen, files)

\* Save is pressed where it is enabled: handleSave runs up to its await
EditorSave ==
    /\ ~screen.isProcessing
    /\ Handled("handleSave", NoArgs, Void, cur, <<>>, handleSave(screen), files)

\* saveSession has written the session and the index and returns;
\* handleSave runs to its end
EditorSaveReturns ==
    /\ screen.saving # None
    /\ Handled("handleSave returns", [session |-> screen.saving[1]], Void,
               cur, <<>>, handleSaveFinally(screen),
               saveSession(files, screen.saving[1]))

\* the intensity slider of the magnifier is released
EditorMagnifierApply ==
    \E scale \in EditorScales :
        /\ screen.tool.component = "MagnifierToolGL"
        /\ Len(operations) < EditorMaxOps
        /\ LET L2 == handleMagnifierApply(cur, [x |-> 100, y |-> 100], 80, scale)
           IN  Handled("handleMagnifierApply", [scale |-> scale], Void, L2,
                       StackHeard("addOperation",
                                  [operation |-> Last(L2.operations)], L2),
                       screen, files)

\* a finger touches the liquify canvas
EditorGrant ==
    \E point \in GesturePoints :
        /\ screen.tool.component = "LiquifyTool"
        /\ ~screen.tool.isDrawing
        /\ Handled("onPanResponderGrant", [point |-> point], Void, cur, <<>>,
                   [screen EXCEPT !.tool = onPanResponderGrant(@, point)],
                   files)

\* the finger moves
EditorMove ==
    \E point \in GesturePoints :
        /\ screen.tool.component = "LiquifyTool"
        /\ screen.tool.isDrawing
        /\ Len(screen.tool.currentStroke) < GestureMaxPoints
        /\ Handled("onPanResponderMove", [point |-> point], Void, cur, <<>>,
                   [screen EXCEPT !.tool = onPanResponderMove(@, point)],
                   files)

\* the finger lifts: args holds the points the gesture recorded, ret the
\* strokes onStrokeEnd was called with
EditorRelease ==
    /\ screen.tool.component = "LiquifyTool"
    /\ screen.tool.isDrawing
    /\ LET strokes == strokeEnded(screen.tool)
           L2 == IF strokes = <<>> THEN cur
                 ELSE handleLiquifyStroke(cur, strokes[1])
       IN  Handled("onPanResponderRelease",
                   [points |-> screen.tool.currentStroke],
                   [onStrokeEnd |-> strokes], L2,
                   IF strokes = <<>> THEN <<>>
                   ELSE StackHeard("addOperation",
                                   [operation |-> Last(L2.operations)], L2),
                   [screen EXCEPT !.tool = onPanResponderRelease(@)],
                   files)

EditorNext ==
    \/ EditorToolSelect
    \/ EditorDone
    \/ EditorUndo
    \/ EditorRedo
    \/ EditorReset
    \/ EditorSave
    \/ EditorSaveReturns
    \/ EditorMagnifierApply
    \/ EditorGrant
    \/ EditorMove
    \/ EditorRelease

SpecEditor == EditorInit /\ [][EditorNext]_vars

\* ------------------------------------------------------------ properties

\* C1: with only addOperation, addOperations, undo and redo called on a log
\* that started empty, whenever undos are pending (made and not yet redone)
\* canRedo() is true and the next redo() brings operations back to what they
\* were before the latest pending undo; holding in every state, this gives
\* undo-redo and n undos followed by n redos.
C1_UndoRedoInverse ==
    undone # <<>> =>
        /\ canRedo(cur)
        /\ redo(cur).operations = Last(undone)

\* a redo of a two-operation group has just acted while an earlier undo is
\* still pending
C1_Witness ==
    /\ last = "redo"
    /\ ~ret.isNull
    /\ Len(ret.ops) = 2
    /\ undone # <<>>
    /\ operations # <<>>

\* C2: when resetTool(T) removed something, the undo() that follows it
\* restores operations to the sequence before resetTool.
C2_ResetToolUndoable ==
    [][(/\ last = "resetTool"
        /\ operations # pre.operations
        /\ last' = "undo")
       => operations' = pre.operations]_vars

\* C3: undo() on a non-empty undoStack pops the last group, removes exactly
\* that many trailing elements from operations, pushes the removed operations
\* as one group onto redoStack and returns the operations of the popped group.
C3_UndoContract ==
    (last = "undo" /\ canUndo(pre)) =>
        /\ undoStack = Pop(pre.undoStack)
        /\ Len(operations) = Len(pre.operations) - Len(Last(pre.undoStack))
        /\ operations = SubSeq(pre.operations, 1, Len(operations))
        /\ redoStack = Append(pre.redoStack, ret.ops)
        /\ ret = Returned(Last(pre.undoStack))

\* C4: undoStack never holds more than 50 groups.
C4_UndoDepthBounded == Len(undoStack) <= maxStackSize

\* C5: after n > 50 single addOperation calls on an empty log, the first 50
\* undo() calls each return the most recently appended remaining operation,
\* the 51st returns null, and operations keeps the n - 50 oldest operations
\* in their order.  n is the length of operations before the first undo, k
\* the number of undos that succeeded.
C5_CapacityBound ==
    LET n == IF undone = <<>> THEN Len(operations) ELSE Len(undone[1])
        k == Len(undone)
    IN  (last \in {"addOperation", "undo"} /\ n > maxStackSize) =>
            /\ k <= maxStackSize
            /\ operations = [i \in 1..(n - k) |-> CapOp(i)]
            /\ (last = "undo" /\ ~ret.isNull =>
                    ret.ops = <<CapOp(n - k + 1)>>)
            /\ (k < maxStackSize => canUndo(cur))
            /\ (k = maxStackSize => undoResult(cur) = Null)
            /\ (last = "undo" /\ ret.isNull =>
                    /\ k = maxStackSize
                    /\ Len(operations) = n - maxStackSize)

\* the 51st undo after maxStackSize + CapExtra appends has returned null
C5_Witness ==
    /\ last = "undo"
    /\ ret.isNull
    /\ Len(undone) = maxStackSize
    /\ Len(undone[1]) = maxStackSize + CapExtra
    /\ Len(operations) = CapExtra

\* C6: after optimizeOperations both stacks are empty and an undo() cannot
\* remove an operation of the coalesced sequence.
C6_CoalesceDiscardsHistory ==
    last = "optimizeOperations" =>
        /\ undoStack = <<>>
        /\ redoStack = <<>>
        /\ undo(cur).operations = operations

\* the kinds optimizeOperations never merges
NeverMerged == {"magnifier", "twirl", "inpaint", "background", "transform"}

Unmerged(ops) == SelectSeq(ops, LAMBDA op : op.type \in NeverMerged)

\* C7: optimizeOperations keeps the operations of the kinds that are never
\* merged in the same relative order as before.
C7_CoalescePreservesOrder ==
    last = "optimizeOperations" =>
        Unmerged(operations) = Unmerged(pre.operations)

ParamKeys == {"eyeSize", "noseWidth", "belly"}

WithKey(ops, type, key) ==
    SelectSeq(ops, LAMBDA op : op.type = type /\ op.key = key)

\* C8: after optimizeOperations, for bodyParam and for faceParam and for each
\* key, exactly one operation with that kind and key remains if there was
\* one before, it is the last one there was, and none appears otherwise.
C8_LatestValuePerKey ==
    last = "optimizeOperations" =>
        \A type \in {"bodyParam", "faceParam"}, key \in ParamKeys :
            WithKey(operations, type, key) =
                IF WithKey(pre.operations, type, key) = <<>> THEN <<>>
                ELSE <<Last(WithKey(pre.operations, type, key))>>

\* faceParam eyeSize 5, 5, 8 has been coalesced to eyeSize 8
C8_Witness ==
    /\ last = "optimizeOperations"
    /\ pre.operations = <<FaceParam("eyeSize", 5), FaceParam("eyeSize", 5),
                          FaceParam("eyeSize", 8)>>
    /\ operations = <<FaceParam("eyeSize", 8)>>

\* the strokes of the liquify operations of ops, in operation order
RECURSIVE StrokesInOrder(_)
StrokesInOrder(ops) ==
    IF ops = <<>> THEN <<>>
    ELSE IF Head(ops).type = "liquify"
         THEN Head(ops).strokes \o StrokesInOrder(Tail(ops))
         ELSE StrokesInOrder(Tail(ops))

\* C9 as claimed: after optimizeOperations on a log with liquify operations,
\* exactly one liquify operation remains and its strokes are all the
\* strokes there were, in order.
C9_OneLiquifyRemains ==
    (last = "optimizeOperations" /\ OfType(pre.operations, "liquify") # <<>>) =>
        /\ Len(OfType(operations, "liquify")) = 1
        /\ OfType(operations, "liquify")[1].strokes
               = StrokesInOrder(pre.operations)

\* C9 as amended: the same, except that two or more liquify operations
\* that hold no stroke at all leave no liquify operation.
C9_OneLiquifyUnlessNoStroke ==
    (last = "optimizeOperations" /\ OfType(pre.operations, "liquify") # <<>>) =>
        IF /\ Len(OfType(pre.operations, "liquify")) > 1
           /\ StrokesInOrder(pre.operations) = <<>>
        THEN OfType(operations, "liquify") = <<>>
        ELSE /\ Len(OfType(operations, "liquify")) = 1
             /\ OfType(operations, "liquify")[1].strokes
                    = StrokesInOrder(pre.operations)

\* two liquify operations with one stroke each have been merged into one
\* operation with both strokes
C9_Witness ==
    /\ last = "optimizeOperations"
    /\ Len(OfType(pre.operations, "liquify")) = 2
    /\ Len(OfType(operations, "liquify")) = 1
    /\ OfType(operations, "liquify")[1].strokes = <<Stroke(2), Stroke(1)>>

Masked(ops) ==
    SelectSeq(ops, LAMBDA op : op.type = "liquify" /\ op.freezeMaskUri # Undefined)

\* C10: the liquify operation left by optimizeOperations carries the
\* freezeMaskUri of the latest liquify operation that had one.
C10_LastSeenFreezeMask ==
    (/\ last = "optimizeOperations"
     /\ Masked(pre.operations) # <<>>
     /\ OfType(operations, "liquify") # <<>>) =>
        OfType(operations, "liquify")[1].freezeMaskUri
            = Last(Masked(pre.operations)).freezeMaskUri

\* C11: after optimizeOperations on a log with color operations exactly one
\* color operation remains, and it is the last color operation there was.
C11_LastColorOnly ==
    (last = "optimizeOperations" /\ OfType(pre.operations, "color") # <<>>) =>
        OfType(operations, "color") = <<Last(OfType(pre.operations, "color"))>>

\* two different color operations around a magnifier have been coalesced
C11_Witness ==
    /\ last = "optimizeOperations"
    /\ pre.operations = <<Color(1), Magnifier(50, 3), Color(2)>>
    /\ OfType(operations, "color") = <<Color(2)>>

\* ops with every operation of kind `type` taken out, the rest in order
RECURSIVE WithoutKind(_, _)
WithoutKind(ops, type) ==
    IF ops = <<>> THEN <<>>
    ELSE IF Head(ops).type = type THEN WithoutKind(Tail(ops), type)
    ELSE <<Head(ops)>> \o WithoutKind(Tail(ops), type)

\* C12: replaceOperationsOfType(type, op) leaves operations equal to the
\* sequence before the call without its operations of kind `type`, the others
\* in order, followed by op; undoStack grows by the one group <<op>>; redoStack
\* is empty.
C12_ReplaceContract ==
    last = "replaceOperationsOfType" =>
        /\ operations = WithoutKind(pre.operations, args.type) \o <<args.operation>>
        /\ undoStack = pre.undoStack \o << <<args.operation>> >>
        /\ redoStack = <<>>

C12_Witness ==
    /\ last = "replaceOperationsOfType"
    /\ args.type = "faceParam"
    /\ Len(OfType(pre.operations, "faceParam")) > 0
    /\ Len(OfType(pre.operations, "magnifier")) > 0
    /\ pre.redoStack # <<>>
    /\ Len(OfType(operations, "faceParam")) = 1

\* C13: where operations of kind OneType enter the log only through
\* replaceOperationsOfType(OneType, op), interleaved with addOperation of
\* other kinds, undo, redo and resetTool, operations never holds more than one
\* operation of kind OneType.
C13_AtMostOneLive == Len(OfType(operations, OneType)) <= 1

\* a second replacement has been undone and redone over another kind's
\* operation, and the one live operation is the replacement
C13_Witness ==
    /\ last = "redo"
    /\ operations = <<Magnifier(50, 3), FaceParam("eyeSize", 8)>>
    /\ undoStack = << <<FaceParam("eyeSize", 5)>>, <<Magnifier(50, 3)>>,
                      <<FaceParam("eyeSize", 8)>> >>

C15_RedoClearedNeverReduced ==
    /\ last \in {"addOperation", "addOperations"} => redoStack = <<>>
    /\ (last = "undo" /\ ~ret.isNull) =>
           /\ Len(redoStack) = Len(pre.redoStack) + 1
           /\ \A i \in 1..Len(pre.redoStack) : redoStack[i] = pre.redoStack[i]

\* C16: redoStack never holds more than 50 groups.
C16_RedoDepthBounded == Len(redoStack) <= maxStackSize

\* an undo has pushed onto a redoStack that already held maxStackSize groups
C16_Witness ==
    /\ last = "undo"
    /\ ~ret.isNull
    /\ Len(pre.redoStack) = maxStackSize
    /\ Len(redoStack) = maxStackSize

\* C17: undo() on an empty undoStack and redo() on an empty redoStack return
\* null, leave operations, undoStack and redoStack as they were and do not
\* call the change listener.
C17_UnderflowNoOp ==
    (\/ last = "undo" /\ pre.undoStack = <<>>
     \/ last = "redo" /\ pre.redoStack = <<>>) =>
        /\ ret = Null
        /\ operations = pre.operations
        /\ undoStack = pre.undoStack
        /\ redoStack = pre.redoStack
        /\ notified = <<>>

\* with a listener registered, undo has been called on a log that holds
\* operations and an undone group but no undo group
C17_Witness ==
    /\ onChangeCallback
    /\ last = "undo"
    /\ pre.undoStack = <<>>
    /\ pre.operations # <<>>
    /\ pre.redoStack # <<>>
    /\ ret.isNull

\* the last call is one of the calls C20 lists, made in the case it lists
ChangingCall ==
    \/ last \in {"addOperation", "addOperations", "updateLastOperation",
                 "replaceOperationsOfType", "reset", "optimizeOperations"}
    \/ last \in {"undo", "redo"} /\ ~ret.isNull
    \/ /\ last \in {"clearOperationsOfType", "resetTool", "clear"}
       /\ Len(operations) < Len(pre.operations)

\* C20: with a listener registered, every call of the log that changes
\* operations calls it exactly once, after the change, with a sequence equal
\* to operations that is not the log's own array; a push by the listener on
\* what it was handed leaves the log as it was.
C20_ListenerHearsEachChange ==
    /\ (/\ onChangeCallback
        /\ last \notin {"constructor", "onChange", "ops.push"}
        /\ (ChangingCall \/ operations # pre.operations)) =>
           /\ Len(notified) = 1
           /\ notified[1].elements = operations
           /\ ~notified[1].isLogArray
    /\ last = "ops.push" =>
           /\ cur = pre
           /\ notified[1].elements = Append(operations, args.operation)

\* the listener has pushed onto the sequence an undo handed it
C20_Witness ==
    /\ onChangeCallback
    /\ last = "ops.push"
    /\ pre.redoStack # <<>>
    /\ operations # <<>>
    /\ Len(notified[1].elements) = Len(operations) + 1

\* C18: redo() on a non-empty redoStack pops the group undone last, appends
\* its operations in their order, pushes the group onto undoStack and returns
\* it; an undo() right after it brings operations, undoStack and redoStack
\* back to what they were before the redo.
C18_RedoContract ==
    (last = "redo" /\ pre.redoStack # <<>>) =>
        LET group == pre.redoStack[Len(pre.redoStack)]
        IN  /\ ret = Returned(group)
            /\ operations = pre.operations \o group
            /\ undoStack = pre.undoStack \o <<group>>
            /\ redoStack = SubSeq(pre.redoStack, 1, Len(pre.redoStack) - 1)
            /\ undo(cur) = pre

\* a group of two operations has been redone while another undone group
\* stays on redoStack
C18_Witness ==
    /\ last = "redo"
    /\ Len(ret.ops) = 2
    /\ redoStack # <<>>
    /\ pre.operations # <<>>

\* C19: addOperations(ops) with k >= 1 operations appends them in order as
\* one undo unit: it adds one group to undoStack, which at 50 groups costs
\* the one oldest group; one undo() after it removes exactly those k
\* operations and returns them in order, and one redo() after that appends
\* them again.
C19_BatchIsOneUnit ==
    /\ (last = "addOperations" /\ Len(args.operations) >= 1) =>
           /\ operations = pre.operations \o args.operations
           /\ Len(undoStack) = Min(Len(pre.undoStack) + 1, maxStackSize)
           /\ undoStack[Len(undoStack)] = args.operations
           /\ \A i \in 1..(Len(undoStack) - 1) :
                  undoStack[i] = pre.undoStack[i + Len(pre.undoStack) + 1
                                                - Len(undoStack)]
    /\ (last = "undo" /\ Len(Last(pre.undoStack)) >= 1) =>
           /\ ret = Returned(Last(pre.undoStack))
           /\ ret.ops = BatchOps(Len(operations), Len(ret.ops))
           /\ pre.operations = operations \o ret.ops
    /\ (last = "redo" /\ Len(Last(pre.redoStack)) >= 1) =>
           /\ ret.ops = BatchOps(Len(pre.operations), Len(ret.ops))
           /\ operations = pre.operations \o ret.ops

\* a batch of two has been appended where undoStack held maxStackSize
\* groups, then undone and redone
C19_Witness ==
    /\ last = "redo"
    /\ Len(ret.ops) = MaxBatch
    /\ Len(undoStack) = maxStackSize
    /\ Len(operations) > maxStackSize + 1

\* C21: no call replaces the operation stored at an existing index of
\* operations by a different one: every index a call leaves in operations
\* holds the operation it held before the call.
C21_NoInPlaceEdit ==
    \A i \in 1..Min(Len(pre.operations), Len(operations)) :
        operations[i] = pre.operations[i]

\* C22: a log constructed from a saved session's ops holds that sequence in
\* that order, canUndo() and canRedo() are false, and undo() returns null and
\* leaves the restored operations as they are.
C22_ReopenEmptyHistory ==
    /\ last = "constructor" =>
           /\ operations = args.initialOps
           /\ ~canUndo(cur)
           /\ ~canRedo(cur)
    /\ last = "undo" =>
           /\ ret = Null
           /\ operations = pre.operations
           /\ ~canUndo(cur)
           /\ ~canRedo(cur)

\* undo has been called on a log reopened with MaxLen operations
C22_Witness ==
    /\ last = "undo"
    /\ ret.isNull
    /\ Len(operations) = MaxLen
    /\ operations[1] # operations[MaxLen]

\* two objects with the same properties: a property that is undefined in
\* one may be absent in the other, every other property is in both with the
\* same value
SameObject(a, b) ==
    /\ DOMAIN a \ OptionalStrings = DOMAIN b \ OptionalStrings
    /\ \A f \in DOMAIN a \ OptionalStrings : a[f] = b[f]
    /\ \A f \in OptionalStrings : Prop(a, f) = Prop(b, f)

\* two operations sequences of the same length, order and fields
SameOperations(a, b) ==
    /\ Len(a) = Len(b)
    /\ \A i \in 1..Len(a) : SameObject(a[i], b[i])

KnownType(entry) == "type" \in DOMAIN entry /\ entry.type \in OperationTypes

\* C24: loadSession and fromJSON return no session and no log whose
\* operations hold an entry with an unknown or malformed type.
C24_UnknownTypeRejected ==
    /\ (last = "loadSession" /\ ~ret.threw /\ ~ret.isNull) =>
           \A i \in 1..Len(ret.value.ops) : KnownType(ret.value.ops[i])
    /\ last = "fromJSON" =>
           \A i \in 1..Len(operations) : KnownType(operations[i])

\* the ids of the index
IndexIds == IF exists(files, SESSIONS_INDEX_FILE) /\ files[SESSIONS_INDEX_FILE].valid
            THEN files[SESSIONS_INDEX_FILE].value ELSE <<>>

\* the file of session id holds a JSON document
Readable(id) == exists(files, sessionPath(id)) /\ files[sessionPath(id)].valid

\* C25: loadSession returns null and does not throw where the file is
\* missing or its text is not JSON; getAllSessions returns the sessions of
\* the index whose files are JSON and passes over the others; fromJSON of a
\* text that is not JSON returns an empty log.
C25_MalformedIsRecoverable ==
    /\ last = "loadSession" =>
           /\ ~ret.threw
           /\ ~Readable(args.sessionId) => ret.isNull
    /\ last = "getAllSessions" =>
           /\ ~ret.threw
           /\ \A i \in 1..Len(IndexIds) :
                  Readable(IndexIds[i]) =>
                      \E j \in 1..Len(ret.value) :
                          ret.value[j] = files[sessionPath(IndexIds[i])].value
           /\ Len(ret.value) = Len(SelectSeq(IndexIds, Readable))
    /\ (last = "fromJSON" /\ ~args.json.valid) =>
           /\ ~ret.threw
           /\ cur = Log(<<>>, <<>>, <<>>)

\* getAllSessions has returned the one session of two in the index whose
\* file is JSON
C25_Witness ==
    /\ last = "getAllSessions"
    /\ Len(IndexIds) = 2
    /\ \E i \in 1..2 : exists(files, sessionPath(IndexIds[i]))
                           /\ ~files[sessionPath(IndexIds[i])].valid
    /\ Len(ret.value) = 1

\* a magnifier or twirl operation with a negative radius
InvalidGeometry(op) == op.type \in {"magnifier", "twirl"} /\ op.radius < 0

\* C26: no magnifier or twirl operation with a negative radius is in
\* operations, in an undo group or in a redo group.
C26_InvalidGeometryRejected ==
    /\ \A i \in 1..Len(operations) : ~InvalidGeometry(operations[i])
    /\ \A g \in 1..Len(undoStack) :
           \A i \in 1..Len(undoStack[g]) : ~InvalidGeometry(undoStack[g][i])
    /\ \A g \in 1..Len(redoStack) :
           \A i \in 1..Len(redoStack[g]) : ~InvalidGeometry(redoStack[g][i])

\* C27 as stated: aspectFitRect(imageSize, container), for positive sizes,
\* is the rectangle of size imageSize * min(container.width / image.width,
\* container.height / image.height) centered in the container: it lies
\* inside the container, equals the container on at least one axis, has
\* equal margins on opposite sides and keeps the image's aspect ratio; for
\* image (4000, 3000) in container (800, 600) it is origin (0, 0), size
\* (800, 600).  All of it read of the values returned, exactly.
FitExample ==
    args.imageSize = Size(4000, 3000) /\ args.container = Size(800, 600)
        => ret = [x |-> CG(0), y |-> CG(0), width |-> CG(800), height |-> CG(600)]

C27_AspectFitExact ==
    last = "aspectFitRect" =>
        LET image == args.imageSize
            container == args.container
            right == ExactAdd(ret.x, ret.width)
            bottom == ExactAdd(ret.y, ret.height)
        IN  /\ IF Leq(ExactMul(container.width, image.height),
                      ExactMul(container.height, image.width))
               THEN /\ ret.width = container.width
                    /\ ExactMul(ret.height, image.width)
                           = ExactMul(image.height, container.width)
               ELSE /\ ret.height = container.height
                    /\ ExactMul(ret.width, image.height)
                           = ExactMul(image.width, container.height)
            /\ Leq(CG(0), ret.x) /\ Leq(right, container.width)
            /\ Leq(CG(0), ret.y) /\ Leq(bottom, container.height)
            /\ (ret.width = container.width \/ ret.height = container.height)
            /\ ret.x = ExactAdd(container.width, Neg(right))
            /\ ret.y = ExactAdd(container.height, Neg(bottom))
            /\ ExactMul(ret.width, image.height) = ExactMul(ret.height, image.width)
            /\ FitExample

\* C27 amended: the same, each equality and inequality up to the rounding
\* of the CGFloat operations: within 2^-50 of the container's extent on
\* that axis (of the products compared, for the aspect ratio); for image
\* (4000, 3000) in container (800, 600) it is exactly origin (0, 0), size
\* (800, 600).
Distance(x, y) == IF Leq(x, y) THEN ExactAdd(y, Neg(x)) ELSE ExactAdd(x, Neg(y))

Near(x, y, extent) == Leq(Distance(x, y), Scaled(extent, 0 - 50))

C27_AspectFitRounded ==
    last = "aspectFitRect" =>
        LET image == args.imageSize
            container == args.container
            right == ExactAdd(ret.x, ret.width)
            bottom == ExactAdd(ret.y, ret.height)
            aspect == ExactMul(ret.width, image.height)
        IN  /\ IF Leq(ExactMul(container.width, image.height),
                      ExactMul(container.height, image.width))
               THEN /\ Near(ret.width, container.width, container.width)
                    /\ Near(ExactMul(ret.height, image.width),
                            ExactMul(image.height, container.width),
                            ExactMul(image.height, container.width))
               ELSE /\ Near(ret.height, container.height, container.height)
                    /\ Near(ExactMul(ret.width, image.height),
                            ExactMul(image.width, container.height),
                            ExactMul(image.width, container.height))
            /\ Leq(Neg(Scaled(container.width, 0 - 50)), ret.x)
            /\ Leq(right, ExactAdd(container.width, Scaled(container.width, 0 - 50)))
            /\ Leq(Neg(Scaled(container.height, 0 - 50)), ret.y)
            /\ Leq(bottom, ExactAdd(container.height, Scaled(container.height, 0 - 50)))
            /\ Near(ret.x, ExactAdd(container.width, Neg(right)), container.width)
            /\ Near(ret.y, ExactAdd(container.height, Neg(bottom)), container.height)
            /\ Near(aspect, ExactMul(ret.height, image.width), aspect)
            /\ FitExample

\* a fit that rounding pushed past the container's edge
C27_Witness ==
    /\ last = "aspectFitRect"
    /\ args.imageSize = Size(1, 22) /\ args.container = Size(390, 844)
    /\ IsNegative(ret.y)
    /\ Less(args.container.height, ret.height)

\* C28: preview/export consistency: for the same view-space center,
\* radius, scale and mode, exportJPEG maps the center to ((cx - fit.x) * sx,
\* (H - cy - fit.y) * sy) and the radius to radius * max(sx, sy), and this
\* is the same relative center position and the same radius relative to
\* the image width as the interactive draw uses on the preview (center
\* (cx, H - cy), radius unscaled); the filter family and scale value are
\* identical in both paths.  The relative positions are compared cross
\* multiplied, up to the rounding of the CGFloat operations (2^-50 of the
\* extents multiplied).
SameRelative(exported, whole, drawn, part, extent) ==
    /\ IsFinite(exported)
    /\ Near(ExactMul(exported, part), ExactMul(drawn, whole),
            ExactMul(whole, extent))

C28_PreviewExportConsistent ==
    last = "exportJPEG" /\ ~ret.isNil =>
        LET exported == ret.frame
            drawn == drawFrame(view)
            base == exported.image.size
            preview == drawn.image
            width == ExactMul(preview.size.width, preview.scaleX)
            height == ExactMul(preview.size.height, preview.scaleY)
            left == ExactAdd(drawn.center.x, Neg(preview.translationX))
            up == ExactAdd(drawn.center.y, Neg(preview.translationY))
            reach == ExactAdd(ExactAdd(Magnitude(view.centerPx.x), width),
                              ExactAdd(Magnitude(view.centerPx.y),
                                       ExactAdd(view.bounds.height, height)))
        IN  /\ SameRelative(exported.center.x, base.width, left, width, reach)
            /\ SameRelative(exported.center.y, base.height, up, height, reach)
            /\ SameRelative(exported.radius, base.width, drawn.radius, width,
                            ExactAdd(drawn.radius, width))
            /\ exported.filter = drawn.filter
            /\ exported.scale = drawn.scale

\* C29: latest wins for the preview: every change of the center
\* (two-element), radius, scale or mode prop marks the native view for
\* redraw, every draw that runs uses the value all four props have when it
\* runs, and a frame computed from a superseded value is never presented
\* after a newer value has been set.
PropChanged ==
    \/ last \in {"radius", "scale", "mode"}
    \/ last = "center" /\ Len(args.center) = 2

C29_ChangeMarksRedraw == PropChanged => view.needsDisplay

C29_DrawReadsLatest ==
    last = "draw" /\ view.baseImage # None =>
        view.committed[Len(view.committed)].from = Props(view)

C29_LatestWins ==
    /\ C29_ChangeMarksRedraw
    /\ C29_DrawReadsLatest
    /\ last = "present" => view.presented[1].from = Props(view)

\* C30: in the magnifier shader, an output coordinate p with
\* |p - center| >= radius samples the source at p itself; for
\* |p - center| < radius with t = |p - center| / radius the sample
\* coordinate is p - (p - center) * amount, where amount is
\* strength * (1 - t)^2 for strength > 0 and -|strength| * (1 - t^2) for
\* strength < 0, and the sample coordinate is clamped to the image bounds.
\* The formula is evaluated in the shader's own arithmetic.
Clamped(x, low, high) == FMax(low, FMin(x, high))

C30_Displacement ==
    last = "bulge" =>
        LET p == args.coord
            d == Point(HSub(p.x, args.center.x), HSub(p.y, args.center.y))
            t == HDiv(length(d), args.radius)
            amount ==
                IF Less(CG(0), args.strength)
                THEN HMul(args.strength, HMul(HSub(CG(1), t), HSub(CG(1), t)))
                ELSE Neg(HMul(Magnitude(args.strength), HSub(CG(1), HMul(t, t))))
        IN  IF Leq(args.radius, length(d)) THEN ret = p
            ELSE ret = Point(Clamped(HSub(p.x, HMul(d.x, amount)),
                                     CG(0), args.resolution.x),
                             Clamped(HSub(p.y, HMul(d.y, amount)),
                                     CG(0), args.resolution.y))

\* C33: for a log started empty and driven only by addOperation,
\* addOperations, undo and redo, the concatenation of the undoStack groups,
\* oldest first, is a suffix of operations; so the groups never hold more
\* operations than operations does, and every undo() removes precisely the
\* operations recorded in the group it pops.
C33_UndoGroupsAreSuffix ==
    LET recorded == Flatten(undoStack)
    IN  /\ Len(recorded) <= Len(operations)
        /\ recorded = SubSeq(operations, Len(operations) - Len(recorded) + 1,
                             Len(operations))
        /\ (last = "undo" /\ canUndo(pre)) =>
               /\ pre.operations = operations \o Last(pre.undoStack)
               /\ ret = Returned(Last(pre.undoStack))

\* an undo of a group of two operations, after the capacity evicted the
\* oldest groups: what is left is a proper suffix
C33_Witness ==
    /\ last = "undo"
    /\ canUndo(pre)
    /\ Len(Last(pre.undoStack)) = 2
    /\ undoStack # <<>>
    /\ Flatten(undoStack) # operations

\* C35: optimizeOperations is idempotent on operations: running it again
\* directly after a run leaves the operations sequence as that run left it.
C35_OptimizeIdempotent ==
    last = "optimizeOperations" =>
        optimizeOperations(cur).operations = operations

\* a run of optimizeOperations that merged operations and kept several
C35_Witness ==
    /\ last = "optimizeOperations"
    /\ Len(operations) < Len(pre.operations)
    /\ Len(operations) >= 2

\* the logs that calls of undo() and redo(), in any number and order, lead to
\* from the logs of S
RECURSIVE UndoRedoClosure(_)
UndoRedoClosure(S) ==
    LET T == S \cup {undo(L) : L \in S} \cup {redo(L) : L \in S}
    IN  IF T = S THEN S ELSE UndoRedoClosure(T)

\* the operations of kind `type` that replaceOperationsOfType(type, op) took
\* out of the log L
Replaced(L, type, op) ==
    {L.operations[i] : i \in {j \in 1..Len(L.operations) :
                                  /\ L.operations[j].type = type
                                  /\ L.operations[j] # op}}

\* C34: an undo() directly after replaceOperationsOfType(type, op) removes
\* exactly op from operations and brings back none of the operations of that
\* kind that the call removed, and no sequence of undo() and redo() calls
\* after the replacement brings one of them back.
C34_ReplacedAreGone ==
    last = "replaceOperationsOfType" =>
        /\ undo(cur).operations = NotOfType(pre.operations, args.type)
        /\ undoResult(cur) = Returned(<<args.operation>>)
        /\ \A M \in UndoRedoClosure({cur}) :
               \A i \in 1..Len(M.operations) :
                   M.operations[i] \notin Replaced(pre, args.type, args.operation)

\* a replacement that removed an operation of the kind, on a log with an
\* earlier undo group and an operation of another kind
C34_Witness ==
    /\ last = "replaceOperationsOfType"
    /\ Replaced(pre, args.type, args.operation) # {}
    /\ Len(undoStack) >= 2
    /\ Len(operations) >= 2

\* C36: the fit rectangle and the fitted preview image the view holds
\* correspond to the view's current bounds: whatever source-prop updates and
\* layout changes came before, setImage under zero bounds included, the fit
\* rectangle exportJPEG uses is aspectFitRect(image size, current bounds),
\* the fitted image is the preview made for the current bounds, and the fit
\* rectangle has non-zero size.
C36_FitTracksBounds ==
    (last = "exportJPEG" /\ ~ret.isNil) =>
        LET base == view.baseImage[1]
        IN  /\ view.imageAspectFitRect = aspectFitRect(base.size, view.bounds)
            /\ view.fittedImage = Some(makePreviewCIImage(base, view.bounds))
            /\ ~IsZero(view.imageAspectFitRect.width)
            /\ ~IsZero(view.imageAspectFitRect.height)

\* no id twice
NoDuplicate(ids) ==
    \A i, j \in 1..Len(ids) : ids[i] = ids[j] => i = j

\* the first n elements of s, all of s where it has no more
FirstN(s, n) == SubSeq(s, 1, Min(n, Len(s)))

\* C38: after any sequence of completed, non-overlapping saveSession and
\* deleteSession calls the sessions index holds no id twice and at most
\* HISTORY_LIMIT ids, and every id it holds has its session file; a
\* saveSession puts its session's id first, before the ids listed until
\* then in their order, and the session file of every id the limit pushes
\* out is deleted; a deleteSession takes its id, and no other, out of the
\* index and deletes its session file.
C38_IndexInvariant ==
    LET ids == IdsOf(files)
        listed == IdsOf(journal.before)
    IN  /\ NoDuplicate(ids)
        /\ Len(ids) <= HISTORY_LIMIT
        /\ \A i \in 1..Len(ids) : exists(files, sessionPath(ids[i]))
        /\ last = "saveSession" =>
               LET moved == <<args.session.id>> \o WithoutId(listed, args.session.id)
               IN  /\ ids = FirstN(moved, HISTORY_LIMIT)
                   /\ \A i \in (HISTORY_LIMIT + 1)..Len(moved) :
                          ~exists(files, sessionPath(moved[i]))
        /\ last = "deleteSession" =>
               /\ ids = WithoutId(listed, args.sessionId)
               /\ ~exists(files, sessionPath(args.sessionId))

\* a session pushed out by the limit has been saved again, which pushed out
\* the next one, after HISTORY_LIMIT + 1 new sessions
C38_Witness ==
    /\ last = "saveSession"
    /\ args.session.id = IndexId(1)
    /\ Len(IdsOf(journal.before)) = HISTORY_LIMIT
    /\ ~exists(journal.before, sessionPath(IndexId(1)))
    /\ ~exists(files, sessionPath(IndexId(2)))
    /\ Len(IdsOf(files)) = HISTORY_LIMIT

\* the calls of saveSession that have returned
Completed == {c \in Calls : pending[c].pc = "done"}

\* C39: when two saveSession calls for different sessions run with their
\* asynchronous steps interleaved, then once both have completed the
\* sessions index holds both session ids.
C39_NoLostIndexUpdate ==
    \A c, d \in Completed :
        pending[c].session.id # pending[d].session.id =>
            \E i, j \in 1..Len(IdsOf(files)) :
                /\ IdsOf(files)[i] = pending[c].session.id
                /\ IdsOf(files)[j] = pending[d].session.id

\* a call that ran from its start to its return with no step of another
\* call in between leaves the files saveSession leaves
AloneIsSaveSession ==
    (/\ last = "writeAsStringAsync(index)"
     /\ journal.begun = 1) =>
        files = saveSession(NoFiles, pending[args.call].session)

\* the screens that presses of the tool buttons and of Done lead to from
\* the screens of S
RECURSIVE ScreensFrom(_)
ScreensFrom(S) ==
    LET T == S \cup {handleToolSelect(e, tool) :
                        e \in {d \in S : controlsShown(d)}, tool \in EditorTools}
                \cup {closeTool(e) : e \in {d \in S : doneShown(d)}}
    IN  IF T = S THEN S ELSE ScreensFrom(T)

\* liquify or magnifier is selected and the Reset control is rendered and
\* enabled
ResetUsable(e) ==
    /\ e.selectedTool \in {Some("liquify"), Some("magnifier")}
    /\ controlsShown(e)
    /\ ~resetDisabled(e)

\* C31: Reset Tool is usable in the editor: a screen is reachable in which
\* liquify or magnifier is selected and the Reset control is rendered and
\* enabled, and pressing it there calls resetTool for that tool's kind.
C31_ResetToolUsable ==
    \E e \in ScreensFrom({screen}) :
        /\ ResetUsable(e)
        /\ handleResetTool(e, cur) = resetTool(cur, e.selectedTool[1])

\* in no state of the editor is the Reset control usable, and no press of
\* it has called handleResetTool
ResetNeverUsable == ~ResetUsable(screen) /\ last # "handleResetTool"

\* C32: a completed liquify gesture that recorded more than one point calls
\* onStrokeEnd exactly once, with all of the gesture's points in order,
\* and that appends exactly one liquify operation holding that one stroke
\* as one undo group; a gesture that recorded one point appends nothing.
C32_GestureAppendsOneStroke ==
    last = "onPanResponderRelease" =>
        IF Len(args.points) > 1
        THEN /\ Len(ret.onStrokeEnd) = 1
             /\ ret.onStrokeEnd[1].points = args.points
             /\ operations = pre.operations
                                 \o <<Liquify(<<ret.onStrokeEnd[1]>>, Undefined)>>
             /\ undoStack = pre.undoStack
                                \o << <<Liquify(<<ret.onStrokeEnd[1]>>, Undefined)>> >>
        ELSE /\ ret.onStrokeEnd = <<>>
             /\ operations = pre.operations
             /\ undoStack = pre.undoStack

\* the part of C32 about a gesture of a single point
SinglePointAppendsNothing ==
    (last = "onPanResponderRelease" /\ Len(args.points) = 1) =>
        /\ ret.onStrokeEnd = <<>>
        /\ operations = pre.operations

\* C37: in the editor, after every call on the operation stack that changes
\* operations the session's ops are the stack's getOperations(), and a Save
\* hands saveSession, which writes it, the session with the operations the
\* stack holds at the press.
C37_SessionFollowsStack ==
    /\ screen.session.ops = getOperations(cur).elements
    /\ last = "handleSave" =>
           /\ screen.saving # None
           /\ screen.saving[1].ops = operations
    /\ last = "handleSave returns" =>
           /\ files[sessionPath(args.session.id)] = stringifySession(args.session)
           /\ loadSession(files, args.session.id).value.ops
                  = DefinedAll(args.session.ops)

\* a Save pressed after an undo that followed an applied magnifier has
\* been written, over the file of the session as it was opened
C37_Witness ==
    /\ last = "handleSave returns"
    /\ args.session.ops # <<>>
    /\ Len(args.session.ops) < Len(operations)
    /\ redoStack = <<>>
    /\ Len(undoStack) = 2

====
